---- MODULE Spec2Model ----
(***************************************************************************)
(* Model of the remote backend of agent-backend (python):                  *)
(*   - path-boundary validation (validate_within_boundary, _resolve_path), *)
(*   - the connection lifecycle of RemoteFilesystemBackend (connect,       *)
(*     _ensure_connected, _schedule_reconnect, _reconnect, destroy),       *)
(*   - the file/exec operations up to their transport calls.               *)
(*                                                                         *)
(* Strings are sequences of atoms.  The atoms "/" , "." and " " are the    *)
(* separator, the dot and a blank; every other atom ("etc", "ws", ...)     *)
(* stands for a non-empty run of ordinary name characters.                 *)
(***************************************************************************)
EXTENDS Integers, Sequences, FiniteSets, TLC

\* ------------------------------------------------------------------------
\* Bounds of the model
\* ------------------------------------------------------------------------
MaxSegs == 4

MaxTransports == 2

MaxCloseables == 1

MaxScopes == 1

MaxAttempts == 5

MaxObservers == 2

\* The largest max_output_length configured.
MaxLimit == 54

\* The longest stdout (without the blanks around it).
MaxStdout == 58

\* The sessions the adapter's callers may get in all.
MaxClients == 2

\* The text deltas of a stream at most.
MaxTextDeltas == 2

\* The tool-call deltas of a stream at most.
MaxToolDeltas == 3

\* The user turns of a chat at most.
MaxTurns == 2

\* The close() calls made on one transport at most.
MaxCloses == 3

\* The messages the tunnel's read loop receives at most.
MaxMessages == 5

\* The blank lines typed at the chat prompt at most.
MaxBlanks == 1

\* The connect attempts that fail before the remote side is back, at most.
MaxFailures == 2

\* ------------------------------------------------------------------------
\* posixpath
\* ------------------------------------------------------------------------
SEP == "/"

DOT == <<".">>

DOTDOT == <<".", ".">>

\* The failure value of path validation (PathEscapeError).
ESCAPE == <<"!path-escape">>

StartsWith(s, pre) ==
    /\ Len(s) >= Len(pre)
    /\ SubSeq(s, 1, Len(pre)) = pre

IsAbs(p) == StartsWith(p, <<SEP>>)

\* str.split("/"): the components between separators (empty ones included).
RECURSIVE SplitFrom(_, _, _)
SplitFrom(p, i, cur) ==
    IF i > Len(p) THEN <<cur>>
    ELSE IF p[i] = SEP THEN <<cur>> \o SplitFrom(p, i + 1, <<>>)
    ELSE SplitFrom(p, i + 1, Append(cur, p[i]))

Split(p) == SplitFrom(p, 1, <<>>)

\* "/".join(comps)
RECURSIVE JoinComps(_)
JoinComps(comps) ==
    IF Len(comps) = 0 THEN <<>>
    ELSE IF Len(comps) = 1 THEN comps[1]
    ELSE comps[1] \o <<SEP>> \o JoinComps(Tail(comps))

\* The loop of posixpath.normpath over the components.
RECURSIVE NormComps(_, _, _)
NormComps(comps, acc, initial) ==
    IF Len(comps) = 0 THEN acc
    ELSE LET c == Head(comps) IN
         IF c = <<>> \/ c = DOT THEN NormComps(Tail(comps), acc, initial)
         ELSE IF \/ c # DOTDOT
                 \/ (initial = 0 /\ Len(acc) = 0)
                 \/ (Len(acc) > 0 /\ acc[Len(acc)] = DOTDOT)
              THEN NormComps(Tail(comps), Append(acc, c), initial)
         ELSE IF Len(acc) > 0
              THEN NormComps(Tail(comps), SubSeq(acc, 1, Len(acc) - 1), initial)
         ELSE NormComps(Tail(comps), acc, initial)

\* posixpath.normpath: the number of leading slashes kept (0, 1 or 2).
InitialSlashes(p) ==
    IF ~IsAbs(p) THEN 0
    ELSE IF StartsWith(p, <<SEP, SEP>>) /\ ~StartsWith(p, <<SEP, SEP, SEP>>) THEN 2
    ELSE 1

\* path or "."
OrDot(p) == IF Len(p) = 0 THEN DOT ELSE p

NormWith(p, initial) ==
    OrDot((IF initial = 2 THEN <<SEP, SEP>>
           ELSE IF initial = 1 THEN <<SEP>> ELSE <<>>)
          \o JoinComps(NormComps(Split(p), <<>>, initial)))

\* posixpath.normpath
NormPath(p) == IF Len(p) = 0 THEN DOT ELSE NormWith(p, InitialSlashes(p))

\* posixpath.join(a, b)
Join(a, b) ==
    IF IsAbs(b) THEN b
    ELSE IF Len(a) = 0 \/ a[Len(a)] = SEP THEN a \o b
    ELSE a \o <<SEP>> \o b

\* posixpath.dirname
RECURSIVE LastSep(_, _)
LastSep(p, i) ==
    IF i = 0 THEN 0 ELSE IF p[i] = SEP THEN i ELSE LastSep(p, i - 1)

RECURSIVE RStripSep(_)
RStripSep(p) ==
    IF Len(p) > 0 /\ p[Len(p)] = SEP THEN RStripSep(SubSeq(p, 1, Len(p) - 1))
    ELSE p

DirnameHead(head) ==
    IF Len(head) > 0 /\ \E k \in 1..Len(head) : head[k] # SEP
    THEN RStripSep(head) ELSE head

Dirname(p) == DirnameHead(SubSeq(p, 1, LastSep(p, Len(p))))

\* The non-empty components of an absolute path (posixpath.relpath's lists).
RECURSIVE NonEmpty(_)
NonEmpty(comps) ==
    IF Len(comps) = 0 THEN <<>>
    ELSE IF Head(comps) = <<>> THEN NonEmpty(Tail(comps))
    ELSE <<Head(comps)>> \o NonEmpty(Tail(comps))

RECURSIVE CommonLen(_, _)
CommonLen(a, b) ==
    IF Len(a) = 0 \/ Len(b) = 0 \/ Head(a) # Head(b) THEN 0
    ELSE 1 + CommonLen(Tail(a), Tail(b))

RECURSIVE Ups(_)
Ups(n) == IF n = 0 THEN <<>> ELSE <<DOTDOT>> \o Ups(n - 1)

\* posixpath.relpath(path, start), both absolute (abspath = normpath).
RelLists(sl, pl, i) ==
    JoinComps(Ups(Len(sl) - i) \o SubSeq(pl, i + 1, Len(pl)))

RelFrom(sl, pl) == OrDot(RelLists(sl, pl, CommonLen(sl, pl)))

RelPath(path, start) ==
    RelFrom(NonEmpty(Split(NormPath(start))), NonEmpty(Split(NormPath(path))))

\* ------------------------------------------------------------------------
\* Path validation
\* ------------------------------------------------------------------------
\* "equal to the root or a descendant of it"
UnderRoot(p, root) == p = root \/ StartsWith(p, root \o <<SEP>>)

\* validate_within_boundary(path, boundary, use_posix).  The host is POSIX:
\* the native path module and posixpath are the same module.
Bounded(n, root) == IF UnderRoot(n, root) THEN n ELSE ESCAPE

ValidateWithinBoundary(path, root, usePosix) ==
    IF IsAbs(path) /\ UnderRoot(NormPath(path), root) THEN NormPath(path)
    ELSE Bounded(NormPath(Join(root, IF IsAbs(path) THEN Tail(path) ELSE path)), root)

\* _resolve_path that joins and normalises without the boundary check.
ResolvePathUnchecked(root, path) == NormPath(Join(root, path))

\* _resolve_path that maps an escaping path to the root instead of raising.
ResolvePathClamped(root, path) ==
    IF ValidateWithinBoundary(path, root, TRUE) = ESCAPE THEN root
    ELSE ValidateWithinBoundary(path, root, TRUE)

\* _resolve_path that rejects every absolute path outside the root.
ResolvePathStrict(root, path) ==
    IF IsAbs(path) /\ ~UnderRoot(NormPath(path), root) THEN ESCAPE
    ELSE ValidateWithinBoundary(path, root, TRUE)

\* RemoteFilesystemBackend._resolve_path: always posix mode.
ResolvePath(root, path) == ValidateWithinBoundary(path, root, TRUE)

\* full_path = posixpath.normpath(posixpath.join("/", resolved))
FullPath(resolved) == NormPath(Join(<<SEP>>, resolved))

\* ScopedFilesystemBackend: the effective root join(parent.root, scope_path).
EffectiveRoot(root, scope) == NormPath(Join(root, scope))

\* The path a scoped backend forwards to its parent: scope_path joined to the
\* caller's path relative to the effective root (v is the validated path).
ForwardPath(scope, v, effRoot) == Join(scope, RelPath(v, effRoot))

ScopedForward(root, scope, v) ==
    IF v = ESCAPE THEN ESCAPE
    ELSE ResolvePath(root, ForwardPath(scope, v, EffectiveRoot(root, scope)))

\* A scoped backend that forwards without validating against its own root.
ScopedResolveUnchecked(root, scope, path) == ResolvePath(root, Join(scope, path))

\* A scoped operation's path: validated against the effective root, then
\* forwarded to the parent, which validates it against its own root.
ScopedResolve(root, scope, path) ==
    ScopedForward(root, scope,
                  ValidateWithinBoundary(path, EffectiveRoot(root, scope), TRUE))

\* ------------------------------------------------------------------------
\* Command safety (external oracle: a pure function of the command string)
\* ------------------------------------------------------------------------
BLANK == " "

RECURSIVE LStrip(_)
LStrip(c) == IF Len(c) > 0 /\ c[1] = BLANK THEN LStrip(Tail(c)) ELSE c

RECURSIVE RStrip(_)
RStrip(c) ==
    IF Len(c) > 0 /\ c[Len(c)] = BLANK THEN RStrip(SubSeq(c, 1, Len(c) - 1))
    ELSE c

\* str.strip()
Strip(c) == RStrip(LStrip(c))

CmdEcho == <<"echo", BLANK, "hello">>

CmdBlank == <<BLANK, BLANK>>

CmdDangerous == <<"rm", BLANK, "-rf", BLANK, SEP>>

CmdUnsafe == <<"sudo", BLANK, "ls">>

IsDangerous(c) == c = CmdDangerous

IsCommandSafe(c) == c # CmdUnsafe

\* ------------------------------------------------------------------------
\* State
\* ------------------------------------------------------------------------
VARIABLES
    cfg,            \* RemoteFilesystemBackendConfig: root, reconnection, prevent_dangerous
    status,         \* ConnectionStatusManager.status
    lastEvents,     \* the StatusChangeEvents <<from, to>> emitted by the last step
    observers,      \* the status manager's callbacks: [cbs, n], the subscribed ones in
                    \* subscription order and how many subscribed so far
    received,       \* the callbacks' invocations so far: <<observer, from, to>>
    transport,      \* self._transport: 0 (None) or the index of a transport in tstate
    tstate,         \* every WebSocketSSHTransport created so far: [ws, ssh, sftp, sessions]
    closeables,     \* self._closeables
    closedC,        \* closeables whose close() has been called
    nextC,          \* number of closeables handed to the backend so far
    activeScopes,   \* self._active_scopes
    nextS,          \* number of scoped children created so far
    destroyedScopes,\* scoped children whose destroy() has been called
    retry,          \* self._retry_count
    reconnectTask,  \* self._reconnect_task: 0 (None) or the index of a task in rt
    rt,             \* every reconnect task created so far: [pc, tr, delay]
    task,           \* the callers' coroutines: [pc, op, arg, scope, res, tr, calls, plan, todo]
    last,           \* the operation that returned or raised in the last step, if any
    recording,      \* whether the outcomes of the operations are recorded in last
    opin,           \* the operation the single caller issues: [op, arg, scope]
    maxT,           \* how many transports the behaviour may create in all
    vin,            \* input of a path validation
    vout            \* its output

backendVars ==
    <<status, transport, tstate, closeables, closedC, nextC, activeScopes, nextS,
      destroyedScopes, retry, reconnectTask, rt>>

pathVars == <<vin, vout, recording, opin, maxT>>

obsVars == <<observers, received>>

vars == <<cfg, lastEvents, obsVars, backendVars, task, last, pathVars>>

Callers == {"c1", "c2"}

Status == {"disconnected", "connecting", "connected", "reconnecting", "destroyed"}

SftpOps == {"read", "write", "rename", "readdir", "mkdir", "stat"}

RunOps == {"exec", "rm", "touch", "exists"}

FileOps == SftpOps \cup RunOps

RootVarWorkspace == <<SEP, "var", SEP, "workspace">>

NoArg ==
    [p |-> <<>>, p2 |-> <<>>, cmd |-> <<>>, recursive |-> FALSE, force |-> FALSE,
     cwd |-> <<>>, env |-> <<>>]

IdleTask ==
    [pc |-> "idle", op |-> "none", arg |-> NoArg, scope |-> <<>>, res |-> "none",
     tr |-> 0, calls |-> <<>>, plan |-> <<>>, todo |-> {}]

NoLast ==
    [op |-> "none", arg |-> NoArg, scope |-> <<>>, res |-> "none", calls |-> <<>>]

\* A WebSocketSSHTransport after __init__: _ws, _ssh_conn and _sftp are None;
\* sessions counts the SFTP sub-sessions start_sftp_client has returned on it.
\* ssh is "lost" when the connection has dropped while _ssh_conn is still set.
FreshTransport == [ws |-> "none", ssh |-> "none", sftp |-> "none", sessions |-> 0]

\* ------------------------------------------------------------------------
\* ConnectionStatusManager
\* ------------------------------------------------------------------------
\* set_status: the setter rejects every transition out of destroyed; observers
\* are notified on each change.
\* A setter that accepts every transition.
NewStatusUnguarded(cur, new) == new

NewStatus(cur, new) == IF cur = "destroyed" THEN cur ELSE new

Events(cur, new) ==
    IF cur = "destroyed" \/ cur = new THEN <<>> ELSE << <<cur, new>> >>

\* One event is dispatched: every callback is invoked, in subscription order,
\* before the setter returns.
Notify(obs, e) == [i \in 1..Len(obs) |-> <<obs[i], e[1], e[2]>>]

\* The invocations made for the events evs, in order.
RECURSIVE NotifyAll(_, _)
NotifyAll(obs, evs) ==
    IF evs = <<>> THEN <<>> ELSE Notify(obs, Head(evs)) \o NotifyAll(obs, Tail(evs))

\* ------------------------------------------------------------------------
\* The transport calls of the operations
\* ------------------------------------------------------------------------
Call(fn, a, b) == [fn |-> fn, a |-> a, b |-> b]

\* " ".join(f"{k}={v}" for k, v in env.items()) + " "
RECURSIVE EnvStr(_)
EnvStr(env) ==
    IF Len(env) = 0 THEN <<>>
    ELSE Head(env)[1] \o <<"=">> \o Head(env)[2] \o <<BLANK>> \o
         (IF Len(env) > 1 THEN EnvStr(Tail(env)) ELSE <<>>)

\* A shell line that ignores options.cwd.
ShellLineInRoot(root, a) ==
    <<"cd", BLANK>> \o root \o <<BLANK, "&&", BLANK, "HOME", "=">> \o root
    \o <<BLANK>> \o EnvStr(a.env) \o a.cmd

\* exec: full_command = f"cd {cwd} && HOME={cwd} {env_str}{command}"
ShellLine(root, a) ==
    LET cwd == IF a.cwd # <<>> THEN a.cwd ELSE root
    IN <<"cd", BLANK>> \o cwd \o <<BLANK, "&&", BLANK, "HOME", "=">> \o cwd
       \o <<BLANK>> \o EnvStr(a.env) \o a.cmd

\* rm: the command line for the four recursive/force combinations
RmLine(resolved, a) ==
    (IF a.recursive
     THEN (IF a.force THEN <<"rm", BLANK, "-rf", BLANK>> ELSE <<"rm", BLANK, "-r", BLANK>>)
     ELSE (IF a.force THEN <<"rm", BLANK, "-f", BLANK>> ELSE <<"rm", BLANK>>))
    \o resolved

\* write: makedirs gets the parent relative to the root (skipped for the
\* root itself), open gets the absolute path.
\* A write that calls makedirs for the root as well.
WritePlanAlwaysMakedirs(full, relParent) ==
    <<Call("makedirs", relParent, <<>>), Call("open", full, <<>>)>>

WritePlan(full, relParent) ==
    (IF relParent # DOT THEN <<Call("makedirs", relParent, <<>>)>> ELSE <<>>)
    \o <<Call("open", full, <<>>)>>

\* The transport calls of operation o with arguments a, given the resolved
\* path(s) and full_path.
PlanOf(o, a, root, resolved, resolved2, full) ==
    CASE o = "read" -> <<Call("getfo", full, <<>>)>>
      [] o = "write" -> WritePlan(full, RelPath(Dirname(full), root))
      [] o = "rename" -> <<Call("rename", resolved, resolved2)>>
      [] o = "readdir" -> <<Call("listdir", full, <<>>)>>
      [] o = "mkdir" ->
           IF a.recursive
           THEN <<Call("makedirs", RelPath(full, root), <<>>)>>
           ELSE <<Call("mkdir", full, <<>>)>>
      [] o = "stat" -> <<Call("stat", full, <<>>)>>
      [] o = "exec" -> <<Call("run", ShellLine(root, a), <<>>)>>
      [] o = "rm" -> <<Call("run", RmLine(resolved, a), <<>>)>>
      [] o = "touch" -> <<Call("run", <<"touch", BLANK>> \o resolved, <<>>)>>
      [] o = "exists" ->
           <<Call("run", <<"test", BLANK, "-e", BLANK>> \o resolved, <<>>)>>

\* The calls an operation makes on the transport after _ensure_connected,
\* in order (each is awaited before the next is issued).
Plan(o, a, root, resolved, resolved2) ==
    PlanOf(o, a, root, resolved, resolved2, FullPath(resolved))

\* The error an operation raises before _ensure_connected, or "none".
EarlyError(o, a, resolved, resolved2, preventDangerous) ==
    IF o = "exec"
    THEN IF Strip(a.cmd) = <<>> THEN "empty-command"
         ELSE IF preventDangerous /\ IsDangerous(a.cmd) THEN "dangerous-operation"
         ELSE IF preventDangerous /\ ~IsCommandSafe(a.cmd) THEN "unsafe-command"
         ELSE "none"
    ELSE IF resolved = ESCAPE THEN "path-escape"
    ELSE IF o = "rename" /\ resolved2 = ESCAPE THEN "path-escape"
    ELSE "none"

\* The code an operation fails with when a transport call of it fails:
\* how = "raise" (the call raised) or "nonzero" (run returned a non-zero exit).
IoError(o, a, how) ==
    CASE o \in {"read", "stat"} -> "read-failed"
      [] o \in {"write", "rename", "mkdir"} -> "write-failed"
      [] o = "readdir" -> "ls-failed"
      [] o = "exec" -> IF how = "nonzero" THEN "exec-failed" ELSE "TransportError"
      [] o = "rm" -> IF how = "nonzero" /\ a.force THEN "ok" ELSE "write-failed"
      [] o = "touch" -> IF how = "nonzero" THEN "write-failed" ELSE "TransportError"
      [] o = "exists" -> IF how = "nonzero" THEN "ok" ELSE "TransportError"

\* ------------------------------------------------------------------------
\* Coroutine steps (task records)
\* ------------------------------------------------------------------------
Done(tk, r) ==
    [tk EXCEPT !.pc = "done", !.res = r, !.tr = 0, !.plan = <<>>, !.todo = {}]

NewTask(o, a) == [IdleTask EXCEPT !.op = o, !.arg = a]

\* The next transport call of the operation is issued on transport cur.
Issue(tk, cur) ==
    [tk EXCEPT !.pc = "io", !.tr = cur, !.calls = Append(@, Head(tk.plan)),
               !.plan = Tail(@)]

\* get_sftp() on transport cur (states ts), then the first SFTP call.
StartSftp(called, cur, ts) ==
    IF ts[cur].sftp = "open" THEN Issue(called, cur)
    ELSE IF ts[cur].ssh \notin {"open", "lost"} THEN Done(called, "ConnectionError")
    ELSE [called EXCEPT !.pc = "sftp", !.tr = cur]

\* transport.run(command): asyncssh raises when the connection is not open.
StartRun(called, cur, ts) ==
    IF ts[cur].ssh \notin {"open", "lost"}
    THEN Done(called, IoError(called.op, called.arg, "raise"))
    ELSE [called EXCEPT !.pc = "io", !.tr = cur]

\* The operation continues after _ensure_connected returned: the assert, then
\* get_sftp() or run() on the backend's current transport cur (states ts).
StartIo(tk, cur, ts) ==
    IF cur = 0 THEN Done(tk, "AssertionError")
    ELSE IF tk.op \in SftpOps
    THEN StartSftp([tk EXCEPT !.calls = Append(@, Call("get_sftp", <<>>, <<>>))],
                   cur, ts)
    ELSE StartRun([tk EXCEPT !.calls = Append(@, Head(tk.plan)), !.plan = Tail(@)],
                  cur, ts)

\* What follows connect() in the coroutine that called it.
AfterConnect(tk, cur, ts) ==
    IF tk.op = "connect" THEN Done(tk, "ok") ELSE StartIo(tk, cur, ts)

\* ------------------------------------------------------------------------
\* connect / _schedule_reconnect
\* ------------------------------------------------------------------------
\* A step in which set_status is not called, or changes nothing.
NoEvents == lastEvents' = <<>> /\ UNCHANGED obsVars

\* The events evs are emitted and dispatched; the callback list stays.
Emit(evs) ==
    /\ lastEvents' = evs
    /\ received' = received \o NotifyAll(observers.cbs, evs)
    /\ UNCHANGED observers

closeVars == <<closeables, closedC, nextC>>

scopeVars == <<activeScopes, nextS, destroyedScopes>>

Free(t) == task[t].pc = "idle"

\* The coroutine of caller t goes on as tk; when tk has returned or raised,
\* the caller is idle again and the outcome is what the step returned.
Settle(t, tk) ==
    /\ task' = [task EXCEPT ![t] = IF tk.pc = "done" THEN IdleTask ELSE tk]
    /\ last' = IF recording /\ tk.pc = "done"
               THEN [op |-> tk.op, arg |-> tk.arg, scope |-> tk.scope, res |-> tk.res,
                     calls |-> tk.calls]
               ELSE NoLast

ConnectCall == Call("connect", <<>>, <<>>)

\* connect() up to its await: status CONNECTING, a new transport installed,
\* transport.connect() entered (awaiting websockets.connect).
StartConnect ==
    /\ Len(tstate) < maxT
    /\ status' = NewStatus(status, "connecting")
    /\ Emit(Events(status, "connecting"))
    /\ tstate' = Append(tstate, FreshTransport)
    /\ transport' = Len(tstate) + 1

\* The delay of the reconnect scheduled when the retry counter is n, in
\* milliseconds (the code divides both arguments of min by 1000.0 and sleeps
\* for that many seconds).
\* A delay that grows without the max_delay_ms cap.
DelayUncapped(c, n) == c.initialDelay * (c.multiplier ^ n)

Delay(c, n) ==
    IF c.initialDelay * (c.multiplier ^ n) < c.maxDelay
    THEN c.initialDelay * (c.multiplier ^ n)
    ELSE c.maxDelay

\* _schedule_reconnect() called with status st and the task list rtBase:
\* the status, events, task list and self._reconnect_task it leaves.
ScheduleReconnect(st, rtBase) ==
    IF ~cfg.enabled \/ (cfg.maxRetries > 0 /\ retry >= cfg.maxRetries)
    THEN [st |-> st, ev |-> <<>>, rt |-> rtBase, rtask |-> reconnectTask]
    ELSE [st |-> NewStatus(st, "reconnecting"),
          ev |-> Events(st, "reconnecting"),
          rt |-> Append(rtBase, [pc |-> "sleep", tr |-> 0, delay |-> Delay(cfg, retry)]),
          rtask |-> Len(rtBase) + 1]

\* An except branch that reports DISCONNECTED and schedules nothing.
ConnectFailedOnly(rtBase) ==
    /\ status' = NewStatus(status, "disconnected")
    /\ Emit(Events(status, "disconnected"))
    /\ rt' = rtBase
    /\ reconnectTask' = reconnectTask

\* connect()'s except branch: DISCONNECTED, then _schedule_reconnect().
ConnectFailed(rtBase) ==
    LET st1 == NewStatus(status, "disconnected")
        ev1 == Events(status, "disconnected")
        sch == IF cfg.enabled THEN ScheduleReconnect(st1, rtBase)
               ELSE [st |-> st1, ev |-> <<>>, rt |-> rtBase, rtask |-> reconnectTask]
    IN /\ status' = sch.st
       /\ Emit(ev1 \o sch.ev)
       /\ rt' = sch.rt
       /\ reconnectTask' = sch.rtask

\* connect()'s success branch: CONNECTED, retry counter reset.
\* A success branch that writes the status without telling the manager.
ConnectSucceededSilent ==
    /\ status' = NewStatus(status, "connected")
    /\ NoEvents
    /\ retry' = 0

ConnectSucceeded ==
    /\ status' = NewStatus(status, "connected")
    /\ Emit(Events(status, "connected"))
    /\ retry' = 0

\* asyncssh.connect failed on transport T: asyncssh may abort the tunnel
\* (closing the WebSocket) or leave it open; self._ws stays set either way.
SshFailedTransport(T, ws) ==
    /\ ws \in (IF tstate[T].ws = "open" THEN {"open", "aborted"} ELSE {tstate[T].ws})
    /\ tstate' = [tstate EXCEPT ![T].ws = ws]

\* ---- public connect() ---------------------------------------------------
Connect(t) ==
    /\ Free(t)
    /\ StartConnect
    /\ Settle(t, [NewTask("connect", NoArg) EXCEPT !.pc = "ws", !.tr = Len(tstate) + 1,
                                                    !.calls = <<ConnectCall>>])
    /\ UNCHANGED <<cfg, closeVars, scopeVars, retry, reconnectTask, rt, pathVars>>

\* _ensure_connected: destroyed -> raise connection-closed; connected with a
\* transport -> return; otherwise connect().
\* _ensure_connected without its check for a destroyed backend.
EnsureConnectedNoDestroyedCheck(st, tr) ==
    IF st = "connected" /\ tr # 0 THEN "return" ELSE "connect"

EnsureConnected(st, tr) ==
    IF st = "destroyed" THEN "raise"
    ELSE IF st = "connected" /\ tr # 0 THEN "return"
    ELSE "connect"

\* ---- a file or exec operation, up to its first await --------------------
\* An operation that connects first and checks its arguments afterwards.
BeginWithConnectFirst(t, tk, early, ens) ==
    IF ens # "connect"
    THEN /\ Settle(t, IF early # "none" THEN Done(tk, early)
                       ELSE IF ens = "raise" THEN Done(tk, "connection-closed")
                       ELSE StartIo(tk, transport, tstate))
         /\ NoEvents
         /\ UNCHANGED <<status, transport, tstate>>
    ELSE /\ StartConnect
         /\ Settle(t, [tk EXCEPT !.pc = "ws", !.tr = Len(tstate) + 1,
                                  !.calls = <<ConnectCall>>])

\* tk carries the operation and its transport calls to come; early is the
\* error raised before _ensure_connected, ens what _ensure_connected does.
BeginWith(t, tk, early, ens) ==
    IF early # "none" \/ ens # "connect"
    THEN /\ Settle(t, IF early # "none" THEN Done(tk, early)
                       ELSE IF ens = "raise" THEN Done(tk, "connection-closed")
                       ELSE StartIo(tk, transport, tstate))
         /\ NoEvents
         /\ UNCHANGED <<status, transport, tstate>>
    ELSE /\ StartConnect
         /\ Settle(t, [tk EXCEPT !.pc = "ws", !.tr = Len(tstate) + 1,
                                  !.calls = <<ConnectCall>>])

BeginResolved(t, tk, resolved, resolved2) ==
    BeginWith(t,
              [tk EXCEPT
                  !.plan = IF resolved = ESCAPE \/ resolved2 = ESCAPE THEN <<>>
                           ELSE Plan(tk.op, tk.arg, cfg.root, resolved, resolved2)],
              EarlyError(tk.op, tk.arg, resolved, resolved2, cfg.preventDangerous),
              EnsureConnected(status, transport))

BeginOp(t, o, a) ==
    /\ Free(t)
    /\ o \in FileOps
    /\ BeginResolved(t, NewTask(o, a), ResolvePath(cfg.root, a.p),
                     ResolvePath(cfg.root, a.p2))
    /\ UNCHANGED <<cfg, closeVars, scopeVars, retry, reconnectTask, rt, pathVars>>

\* ---- the same operation called on a scoped child (scope_path = scope) ----
\* The child validates against its effective root and forwards to the parent,
\* which validates again; a path the child rejects never reaches the parent.
\* (A child is a ScopedFilesystemBackend(parent, scope_path); scope() makes
\* one and registers it.)
ScopedOp(t, o, a, scope) ==
    /\ Free(t)
    /\ o \in FileOps \ {"exec"}
    /\ BeginResolved(t, [NewTask(o, a) EXCEPT !.scope = scope],
                     ScopedResolve(cfg.root, scope, a.p),
                     ScopedResolve(cfg.root, scope, a.p2))
    /\ UNCHANGED <<cfg, closeVars, scopeVars, retry, reconnectTask, rt, pathVars>>

\* ---- transport.connect() inside a caller's coroutine --------------------
\* websockets.connect returned: self._ws is set; asyncssh.connect is awaited.
WsOpen(t) ==
    /\ task[t].pc = "ws"
    /\ tstate' = [tstate EXCEPT ![task[t].tr].ws = "open"]
    /\ Settle(t, [task[t] EXCEPT !.pc = "ssh"])
    /\ NoEvents
    /\ UNCHANGED <<cfg, status, transport, closeVars, scopeVars, retry,
                   reconnectTask, rt, pathVars>>

\* websockets.connect raised.
WsFail(t) ==
    /\ task[t].pc = "ws"
    /\ ConnectFailed(rt)
    /\ Settle(t, Done(task[t], "ConnectError"))
    /\ UNCHANGED <<cfg, transport, tstate, closeVars, scopeVars, retry, pathVars>>

\* asyncssh.connect returned: connected; the operation goes on.
SshOk(t) ==
    /\ task[t].pc = "ssh"
    /\ tstate[task[t].tr].ws = "open"
    /\ tstate' = [tstate EXCEPT ![task[t].tr].ssh = "open"]
    /\ ConnectSucceeded
    /\ Settle(t, AfterConnect(task[t], transport, tstate'))
    /\ UNCHANGED <<cfg, transport, closeVars, scopeVars, reconnectTask, rt, pathVars>>

\* asyncssh.connect raised.
SshFail(t) ==
    /\ task[t].pc = "ssh"
    /\ \E ws \in {"open", "aborted", "closed"} : SshFailedTransport(task[t].tr, ws)
    /\ ConnectFailed(rt)
    /\ Settle(t, Done(task[t], "ConnectError"))
    /\ UNCHANGED <<cfg, transport, closeVars, scopeVars, retry, pathVars>>

\* ---- _reconnect(delay) --------------------------------------------------
\* The sleep is over: the retry counter is incremented and connect() runs.
TimerFire(r) ==
    /\ r \in 1..Len(rt)
    /\ rt[r].pc = "sleep"
    /\ retry' = retry + 1
    /\ StartConnect
    /\ rt' = [rt EXCEPT ![r].pc = "ws", ![r].tr = Len(tstate) + 1]
    /\ UNCHANGED <<cfg, closeVars, scopeVars, reconnectTask, pathVars>>
    /\ UNCHANGED task
    /\ last' = NoLast

RWsOpen(r) ==
    /\ r \in 1..Len(rt)
    /\ rt[r].pc = "ws"
    /\ tstate' = [tstate EXCEPT ![rt[r].tr].ws = "open"]
    /\ rt' = [rt EXCEPT ![r].pc = "ssh"]
    /\ NoEvents
    /\ UNCHANGED <<cfg, status, transport, closeVars, scopeVars, retry,
                   reconnectTask, pathVars>>
    /\ UNCHANGED task
    /\ last' = NoLast

\* connect() raised inside _reconnect: logged, the task ends.
RWsFail(r) ==
    /\ r \in 1..Len(rt)
    /\ rt[r].pc = "ws"
    /\ ConnectFailed([rt EXCEPT ![r].pc = "done"])
    /\ UNCHANGED <<cfg, transport, tstate, closeVars, scopeVars, retry, pathVars>>
    /\ UNCHANGED task
    /\ last' = NoLast

RSshOk(r) ==
    /\ r \in 1..Len(rt)
    /\ rt[r].pc = "ssh"
    /\ tstate[rt[r].tr].ws = "open"
    /\ tstate' = [tstate EXCEPT ![rt[r].tr].ssh = "open"]
    /\ ConnectSucceeded
    /\ rt' = [rt EXCEPT ![r].pc = "done"]
    /\ UNCHANGED <<cfg, transport, closeVars, scopeVars, reconnectTask, pathVars>>
    /\ UNCHANGED task
    /\ last' = NoLast

RSshFail(r) ==
    /\ r \in 1..Len(rt)
    /\ rt[r].pc = "ssh"
    /\ \E ws \in {"open", "aborted", "closed"} : SshFailedTransport(rt[r].tr, ws)
    /\ ConnectFailed([rt EXCEPT ![r].pc = "done"])
    /\ UNCHANGED <<cfg, transport, closeVars, scopeVars, retry, pathVars>>
    /\ UNCHANGED task
    /\ last' = NoLast

\* ---- the transport calls of an operation --------------------------------
\* start_sftp_client returned: the session is cached; the first SFTP call
\* is issued.
SftpStarted(t) ==
    /\ task[t].pc = "sftp"
    /\ tstate[task[t].tr].ssh # "lost"
    /\ tstate' = [tstate EXCEPT ![task[t].tr].sftp = "open",
                                 ![task[t].tr].sessions = @ + 1]
    /\ Settle(t, Issue(task[t], task[t].tr))
    /\ NoEvents
    /\ UNCHANGED <<cfg, status, transport, closeVars, scopeVars, retry,
                   reconnectTask, rt, pathVars>>

\* start_sftp_client raised (outside the operation's try block).
SftpFail(t) ==
    /\ task[t].pc = "sftp"
    /\ Settle(t, Done(task[t], "TransportError"))
    /\ NoEvents
    /\ UNCHANGED <<cfg, backendVars, pathVars>>

\* The awaited transport call returned: the next one is issued, or the
\* operation returns.
IoOk(t) ==
    /\ task[t].pc = "io"
    /\ tstate[task[t].tr].ssh # "lost"
    /\ Settle(t, IF Len(task[t].plan) = 0 THEN Done(task[t], "ok")
                  ELSE [task[t] EXCEPT !.calls = Append(@, Head(task[t].plan)),
                                       !.plan = Tail(@)])
    /\ NoEvents
    /\ UNCHANGED <<cfg, backendVars, pathVars>>

\* The awaited transport call raised, or run returned a non-zero exit code.
IoFail(t, how) ==
    /\ task[t].pc = "io"
    /\ how \in (IF task[t].op \in RunOps /\ tstate[task[t].tr].ssh # "lost"
                THEN {"raise", "nonzero"} ELSE {"raise"})
    /\ Settle(t, Done(task[t], IoError(task[t].op, task[t].arg, how)))
    /\ NoEvents
    /\ UNCHANGED <<cfg, backendVars, pathVars>>

\* ---- the connection drops ------------------------------------------------
\* The tunnel's read loop ends (the WebSocket closed or failed) and reports
\* connection_lost to asyncssh: the SSH connection of transport T is gone, but
\* _ssh_conn, _sftp and _ws stay set and nothing tells the backend.
ConnectionLost(T) ==
    /\ T \in DOMAIN tstate
    /\ tstate[T].ssh = "open"
    /\ tstate' = [tstate EXCEPT ![T].ssh = "lost", ![T].ws = "aborted"]
    /\ NoEvents
    /\ last' = NoLast
    /\ UNCHANGED <<cfg, status, transport, closeVars, scopeVars, retry, reconnectTask,
                   rt, task, pathVars>>

\* ---- observers -----------------------------------------------------------
\* on_status_change(cb): the callback is appended to the manager's list.
Subscribe(t) ==
    /\ Free(t)
    /\ observers.n < MaxObservers
    /\ observers' = [cbs |-> Append(observers.cbs, observers.n + 1),
                     n |-> observers.n + 1]
    /\ lastEvents' = <<>>
    /\ UNCHANGED received
    /\ Settle(t, Done(NewTask("on_status_change", NoArg), "ok"))
    /\ UNCHANGED <<cfg, backendVars, pathVars>>

\* ---- closeables and scopes ----------------------------------------------
\* track_closeable(closeable)
TrackCloseable(t) ==
    /\ Free(t)
    /\ nextC < MaxCloseables
    /\ nextC' = nextC + 1
    /\ closeables' = closeables \cup {nextC + 1}
    /\ Settle(t, Done(NewTask("track_closeable", NoArg), "ok"))
    /\ NoEvents
    /\ UNCHANGED <<cfg, status, transport, tstate, closedC, scopeVars, retry,
                   reconnectTask, rt, pathVars>>

\* get_mcp_transport / get_mcp_client up to the await of the factory.
BeginMcp(t, o) ==
    /\ Free(t)
    /\ o \in {"get_mcp_transport", "get_mcp_client"}
    /\ nextC < MaxCloseables
    /\ Settle(t, [NewTask(o, NoArg) EXCEPT !.pc = "mcp"])
    /\ NoEvents
    /\ UNCHANGED <<cfg, backendVars, pathVars>>

\* The factory returned: the transport or session is added to _closeables.
McpOk(t) ==
    /\ task[t].pc = "mcp"
    /\ nextC < MaxCloseables
    /\ nextC' = nextC + 1
    /\ closeables' = closeables \cup {nextC + 1}
    /\ Settle(t, Done(task[t], "ok"))
    /\ NoEvents
    /\ UNCHANGED <<cfg, status, transport, tstate, closedC, scopeVars, retry,
                   reconnectTask, rt, pathVars>>

\* The factory raised.
McpFail(t) ==
    /\ task[t].pc = "mcp"
    /\ Settle(t, Done(task[t], "McpError"))
    /\ NoEvents
    /\ UNCHANGED <<cfg, backendVars, pathVars>>

\* scope(scope_path)
Scope(t) ==
    /\ Free(t)
    /\ nextS < MaxScopes
    /\ nextS' = nextS + 1
    /\ activeScopes' = activeScopes \cup {nextS + 1}
    /\ Settle(t, Done(NewTask("scope", NoArg), "ok"))
    /\ NoEvents
    /\ UNCHANGED <<cfg, status, transport, tstate, closeVars, destroyedScopes, retry,
                   reconnectTask, rt, pathVars>>

\* destroy() of the scoped child c: the child is marked destroyed and tells
\* its parent, whose on_child_destroyed discards it from _active_scopes.
ChildDestroy(t, c) ==
    /\ Free(t)
    /\ c \in 1..nextS
    /\ destroyedScopes' = destroyedScopes \cup {c}
    /\ activeScopes' = activeScopes \ {c}
    /\ Settle(t, Done(NewTask("child_destroy", NoArg), "ok"))
    /\ NoEvents
    /\ UNCHANGED <<cfg, status, transport, tstate, closeVars, nextS, retry,
                   reconnectTask, rt, pathVars>>

\* ------------------------------------------------------------------------
\* destroy
\* ------------------------------------------------------------------------
\* _reconnect_task.cancel(): a task still waiting is cancelled (CancelledError
\* is not an Exception: connect()'s except branch does not run).
Cancel(tasks, r) ==
    IF r # 0 /\ tasks[r].pc \in {"sleep", "ws", "ssh"}
    THEN [tasks EXCEPT ![r].pc = "cancelled"]
    ELSE tasks

\* The end of destroy(): transport dropped, scopes cleared, status DESTROYED,
\* listeners cleared.  tk is the coroutine's record, ts the transports.
\* destroy() that drops the transport but never reports DESTROYED.
DestroyFinishKeepsStatus(t, tk, ts) ==
    /\ tstate' = ts
    /\ transport' = 0
    /\ activeScopes' = {}
    /\ status' = status
    /\ lastEvents' = <<>>
    /\ received' = received
    /\ observers' = [observers EXCEPT !.cbs = <<>>]
    /\ Settle(t, Done(tk, "ok"))

\* destroy() that clears the listeners before it sets the status.
DestroyFinishClearsFirst(t, tk, ts) ==
    /\ tstate' = ts
    /\ transport' = 0
    /\ activeScopes' = {}
    /\ status' = NewStatus(status, "destroyed")
    /\ lastEvents' = Events(status, "destroyed")
    /\ received' = received
    /\ observers' = [observers EXCEPT !.cbs = <<>>]
    /\ Settle(t, Done(tk, "ok"))

DestroyFinish(t, tk, ts) ==
    /\ tstate' = ts
    /\ transport' = 0
    /\ activeScopes' = {}
    /\ status' = NewStatus(status, "destroyed")
    /\ lastEvents' = Events(status, "destroyed")
    /\ received' = received \o NotifyAll(observers.cbs, Events(status, "destroyed"))
    /\ observers' = [observers EXCEPT !.cbs = <<>>]
    /\ Settle(t, Done(tk, "ok"))

\* transport.close() on the transport T after its wait for the SSH connection
\* (or with none to wait for): the WebSocket is closed next, when there is one.
DestroyCloseWs(t, tk, T, ts) ==
    IF ts[T].ws \in {"open", "aborted"}
    THEN /\ tstate' = ts
         /\ Settle(t, [tk EXCEPT !.pc = "closeT2", !.tr = T])
         /\ NoEvents
         /\ UNCHANGED <<status, transport, activeScopes>>
    ELSE DestroyFinish(t, tk, ts)

\* destroy() after the closeables: the transport, if any, is closed;
\* transport.close() runs up to its first await (SFTP exit, SSH close).
DestroyTransport(t, tk) ==
    IF transport = 0 THEN DestroyFinish(t, tk, tstate)
    ELSE LET T == transport
             ts1 == [tstate EXCEPT ![T].sftp = IF @ = "open" THEN "closed" ELSE @]
         IN IF ts1[T].ssh \in {"open", "lost", "closing"}
            THEN /\ tstate' = [ts1 EXCEPT ![T].ssh = "closing"]
                 /\ Settle(t, [tk EXCEPT !.pc = "closeT1", !.tr = T])
                 /\ NoEvents
                 /\ UNCHANGED <<status, transport, activeScopes>>
            ELSE DestroyCloseWs(t, tk, T, ts1)

\* destroy() up to its first await.
DestroyBegin(t) ==
    /\ Free(t)
    /\ rt' = Cancel(rt, reconnectTask)
    /\ reconnectTask' = 0
    /\ LET tk == NewTask("destroy", NoArg)
       IN IF closeables # {}
          THEN /\ \E c \in closeables :
                    /\ closedC' = closedC \cup {c}
                    /\ Settle(t, [tk EXCEPT !.pc = "closeC", !.todo = closeables \ {c}])
               /\ NoEvents
               /\ UNCHANGED <<closeables, status, transport, tstate, activeScopes>>
          ELSE /\ closeables' = {}
               /\ UNCHANGED closedC
               /\ DestroyTransport(t, tk)
    /\ UNCHANGED <<cfg, nextC, nextS, destroyedScopes, retry, pathVars>>

\* closeable.close() returned or raised (the exception is swallowed): the
\* next closeable of the snapshot, or _closeables.clear() and the transport.
DestroyCloseable(t) ==
    /\ task[t].pc = "closeC"
    /\ IF task[t].todo # {}
       THEN /\ \E c \in task[t].todo :
                 /\ closedC' = closedC \cup {c}
                 /\ Settle(t, [task[t] EXCEPT !.todo = @ \ {c}])
            /\ NoEvents
            /\ UNCHANGED <<closeables, status, transport, tstate, activeScopes>>
       ELSE /\ closeables' = {}
            /\ UNCHANGED closedC
            /\ DestroyTransport(t, task[t])
    /\ UNCHANGED <<cfg, nextC, nextS, destroyedScopes, retry, reconnectTask, rt, pathVars>>

\* transport.close(): wait_closed() returned, self._ssh_conn = None.
DestroySshClosed(t) ==
    /\ task[t].pc = "closeT1"
    /\ LET T == task[t].tr
       IN DestroyCloseWs(t, task[t], T, [tstate EXCEPT ![T].ssh = "closed"])
    /\ UNCHANGED <<cfg, closeVars, nextS, destroyedScopes, retry, reconnectTask, rt,
                   pathVars>>

\* transport.close(): the WebSocket's close() returned, self._ws = None; back
\* in destroy().
DestroyWsClosed(t) ==
    /\ task[t].pc = "closeT2"
    /\ LET T == task[t].tr
       IN DestroyFinish(t, task[t], [tstate EXCEPT ![T].ws = "closed"])
    /\ UNCHANGED <<cfg, closeVars, nextS, destroyedScopes, retry, reconnectTask, rt,
                   pathVars>>

\* transport.close(): the awaited wait_closed() or WebSocket close() raised.
\* destroy() has no handler around transport.close(): it raises, leaving the
\* transport installed and the status as it was.
DestroyCloseFail(t) ==
    /\ task[t].pc \in {"closeT1", "closeT2"}
    /\ Settle(t, Done(task[t], "TransportError"))
    /\ NoEvents
    /\ UNCHANGED <<cfg, backendVars, pathVars>>

\* ------------------------------------------------------------------------
\* The backend: two callers, representative operations
\* ------------------------------------------------------------------------
PathFile == <<"test", ".", "txt">>

PathSub == <<"sub", SEP, "file", ".", "txt">>

PathEscaping == <<".", ".", SEP, "etc", SEP, "passwd">>

PathDir == <<"sub", SEP, "dir">>

PathNested == <<"a", SEP, "b", SEP, "c", SEP, "file", ".", "txt">>

\* The reconnection policy of the examples: initial_delay_ms, max_delay_ms,
\* backoff_multiplier.
InitialDelayMs == 100

MaxDelayMs == 1000

BackoffMultiplier == 2

Policy(enabled, maxRetries) ==
    [enabled |-> enabled, maxRetries |-> maxRetries, initialDelay |-> InitialDelayMs,
     maxDelay |-> MaxDelayMs, multiplier |-> BackoffMultiplier]

Reconnections == {Policy(TRUE, 0), Policy(TRUE, 1), Policy(FALSE, 0)}

Config(root, r, pd) ==
    [root |-> root, enabled |-> r.enabled, maxRetries |-> r.maxRetries,
     initialDelay |-> r.initialDelay, maxDelay |-> r.maxDelay,
     multiplier |-> r.multiplier, preventDangerous |-> pd]

Configs == { Config(RootVarWorkspace, r, pd) : r \in Reconnections, pd \in BOOLEAN }

\* Without recording, prevent_dangerous changes nothing a step can see.
LifeConfigs == { c \in Configs : c.preventDangerous }

\* The operations the callers issue: an SFTP operation and an SSH-run one,
\* with good and bad arguments.
LifeInputs ==
    { <<"read", [NoArg EXCEPT !.p = PathSub]>>,
      <<"read", [NoArg EXCEPT !.p = PathEscaping]>>,
      <<"exec", [NoArg EXCEPT !.cmd = CmdEcho]>>,
      <<"exec", [NoArg EXCEPT !.cmd = CmdBlank]>>,
      <<"exec", [NoArg EXCEPT !.cmd = CmdDangerous]>> }

InitBackend ==
    /\ status = "disconnected"
    /\ lastEvents = <<>>
    /\ observers = [cbs |-> <<>>, n |-> 0]
    /\ received = <<>>
    /\ transport = 0
    /\ tstate = <<>>
    /\ closeables = {}
    /\ closedC = {}
    /\ nextC = 0
    /\ activeScopes = {}
    /\ nextS = 0
    /\ destroyedScopes = {}
    /\ retry = 0
    /\ reconnectTask = 0
    /\ rt = <<>>
    /\ task = [t \in Callers |-> IdleTask]
    /\ last = NoLast

NoPath == [root |-> <<>>, path |-> <<>>, posix |-> TRUE, scope |-> <<>>]

NoOut == [kind |-> "none", res |-> <<>>]

NoOp == [op |-> "none", arg |-> NoArg, scope |-> <<>>]

Init ==
    /\ cfg \in LifeConfigs
    /\ InitBackend
    /\ recording = FALSE
    /\ vin = NoPath
    /\ vout = NoOut
    /\ opin = NoOp
    /\ maxT = MaxTransports

Next ==
    \/ \E t \in Callers : Connect(t)
    \/ \E t \in Callers : \E i \in LifeInputs : BeginOp(t, i[1], i[2])
    \/ \E t \in Callers : WsOpen(t)
    \/ \E t \in Callers : WsFail(t)
    \/ \E t \in Callers : SshOk(t)
    \/ \E t \in Callers : SshFail(t)
    \/ \E r \in 1..MaxTransports : TimerFire(r)
    \/ \E r \in 1..MaxTransports : RWsOpen(r)
    \/ \E r \in 1..MaxTransports : RWsFail(r)
    \/ \E r \in 1..MaxTransports : RSshOk(r)
    \/ \E r \in 1..MaxTransports : RSshFail(r)
    \/ \E t \in Callers : SftpStarted(t)
    \/ \E t \in Callers : SftpFail(t)
    \/ \E t \in Callers : IoOk(t)
    \/ \E t \in Callers : \E how \in {"raise", "nonzero"} : IoFail(t, how)
    \/ \E t \in Callers : DestroyBegin(t)
    \/ \E t \in Callers : DestroySshClosed(t)
    \/ \E t \in Callers : DestroyWsClosed(t)

Spec == Init /\ [][Next]_vars

\* ------------------------------------------------------------------------
\* What the backend owns: closeables, scoped children, the transport
\* ------------------------------------------------------------------------
NextOwn ==
    \/ \E t \in Callers : Connect(t)
    \/ \E t \in Callers : WsOpen(t)
    \/ \E t \in Callers : WsFail(t)
    \/ \E t \in Callers : SshOk(t)
    \/ \E t \in Callers : SshFail(t)
    \/ \E t \in Callers : TrackCloseable(t)
    \/ \E t \in Callers : \E o \in {"get_mcp_transport", "get_mcp_client"} :
            BeginMcp(t, o)
    \/ \E t \in Callers : McpOk(t)
    \/ \E t \in Callers : McpFail(t)
    \/ \E t \in Callers : Scope(t)
    \/ \E t \in Callers : \E c \in 1..MaxScopes : ChildDestroy(t, c)
    \/ \E t \in Callers : DestroyBegin(t)
    \/ \E t \in Callers : DestroyCloseable(t)
    \/ \E t \in Callers : DestroySshClosed(t)
    \/ \E t \in Callers : DestroyWsClosed(t)
    \/ \E t \in Callers : DestroyCloseFail(t)

\* Reconnection is disabled (no reconnect task is ever made); the outcome of
\* every call is recorded.
InitOwn ==
    /\ cfg \in { c \in LifeConfigs : ~c.enabled }
    /\ InitBackend
    /\ recording = TRUE
    /\ vin = NoPath
    /\ vout = NoOut
    /\ opin = NoOp
    /\ maxT = MaxTransports

SpecOwn == InitOwn /\ [][NextOwn]_vars

\* ------------------------------------------------------------------------
\* Path validation on its own: inputs drawn from bounded sets
\* ------------------------------------------------------------------------
RootWorkspace == <<SEP, "workspace">>

RootWs == <<SEP, "ws">>

Roots == {RootWorkspace, RootVarWorkspace, RootWs}

ScopeProj == <<"proj">>

\* One path segment: a name, ".", "..".
Segments == {<<"a">>, <<"ws">>, DOT, DOTDOT}

\* The relative paths of exactly n segments.
RECURSIVE RelPaths(_)
RelPaths(n) ==
    IF n = 0 THEN {<<>>}
    ELSE IF n = 1 THEN Segments
    ELSE { s \o <<SEP>> \o r : s \in Segments, r \in RelPaths(n - 1) }

\* Paths of the tests and scenarios.
PathEtcPasswd == <<SEP, "etc", SEP, "passwd">>

PathUpUpEtcPasswd == DOTDOT \o <<SEP>> \o DOTDOT \o <<SEP, "etc", SEP, "passwd">>

PathComplexTraversal ==
    <<"a", SEP, "b", SEP>> \o DOTDOT \o <<SEP>> \o DOTDOT \o <<SEP>> \o DOTDOT
    \o <<SEP>> \o DOTDOT \o <<SEP, "etc">>

PathRootTraversal == DOTDOT \o <<SEP>> \o DOTDOT \o <<SEP>> \o DOTDOT

PathDoubleSep == <<"a", SEP, SEP, "b", SEP>>

ExamplePaths ==
    {PathFile, PathSub, PathEscaping, PathEtcPasswd, PathUpUpEtcPasswd,
     PathComplexTraversal, PathRootTraversal, PathDoubleSep}
    \cup {PathDir, PathNested}
    \cup Roots \cup { r \o <<SEP, "a">> : r \in Roots }
    \cup { r \o <<SEP>> \o p : r \in Roots, p \in {PathFile, PathSub, PathDir, PathNested} }
    \cup { r \o <<SEP>> \o DOTDOT \o <<SEP, "etc">> : r \in Roots }

Paths ==
    LET rel == UNION { RelPaths(n) : n \in 0..MaxSegs }
    IN rel \cup { <<SEP>> \o r : r \in rel } \cup ExamplePaths

InitPath ==
    /\ cfg \in { c \in LifeConfigs : c.enabled /\ c.maxRetries = 0 }
    /\ InitBackend
    /\ recording = FALSE
    /\ vin \in [root : Roots, path : Paths, posix : BOOLEAN, scope : {ScopeProj}]
    /\ vout = NoOut
    /\ opin = NoOp
    /\ maxT = MaxTransports

\* validate_within_boundary(path, root, use_posix=posix)
Validate ==
    /\ vout' = [kind |-> "validate",
                res |-> ValidateWithinBoundary(vin.path, vin.root, vin.posix)]
    /\ UNCHANGED <<cfg, lastEvents, obsVars, backendVars, task, last, vin, recording,
                   opin, maxT>>

\* backend._resolve_path(path)
Resolve ==
    /\ vout' = [kind |-> "resolve", res |-> ResolvePath(vin.root, vin.path)]
    /\ UNCHANGED <<cfg, lastEvents, obsVars, backendVars, task, last, vin, recording,
                   opin, maxT>>

\* The path a scoped backend's operation reaches its parent with.
ResolveScoped ==
    /\ vout' = [kind |-> "scoped", res |-> ScopedResolve(vin.root, vin.scope, vin.path)]
    /\ UNCHANGED <<cfg, lastEvents, obsVars, backendVars, task, last, vin, recording,
                   opin, maxT>>

\* The calls an operation on path a.p makes on a connected transport after
\* get_sftp(): none when _resolve_path raises.
OpCalls(o, a, root) ==
    IF EarlyError(o, a, ResolvePath(root, a.p), <<>>, TRUE) # "none" THEN <<>>
    ELSE Plan(o, a, root, ResolvePath(root, a.p), <<>>)

\* backend.write(path, data) on a connected backend: its SFTP calls
WriteCalls ==
    /\ vout' = [kind |-> "write",
                res |-> OpCalls("write", [NoArg EXCEPT !.p = vin.path], vin.root)]
    /\ UNCHANGED <<cfg, lastEvents, obsVars, backendVars, task, last, vin, recording,
                   opin, maxT>>

\* backend.mkdir(path, recursive=rec) on a connected backend: its SFTP calls
MkdirCalls ==
    /\ \E rec \in BOOLEAN :
         vout' = [kind |-> IF rec THEN "mkdir-recursive" ELSE "mkdir",
                  res |-> OpCalls("mkdir", [NoArg EXCEPT !.p = vin.path,
                                                         !.recursive = rec],
                                  vin.root)]
    /\ UNCHANGED <<cfg, lastEvents, obsVars, backendVars, task, last, vin, recording,
                   opin, maxT>>

NextPath == Validate \/ Resolve \/ ResolveScoped \/ WriteCalls \/ MkdirCalls

SpecPath == InitPath /\ [][NextPath]_vars

\* ------------------------------------------------------------------------
\* The operations one by one: one caller, every outcome recorded
\* ------------------------------------------------------------------------
\* The backend of the unit tests: root '/var/workspace'.
TestConfig == Config(RootVarWorkspace, Policy(FALSE, 0), TRUE)

OpsConfigs ==
    { TestConfig,
      Config(RootWs, Policy(TRUE, 0), TRUE),
      Config(RootWs, Policy(FALSE, 0), TRUE),
      Config(RootWs, Policy(TRUE, 0), FALSE) }

PathUpX == DOTDOT \o <<SEP, "x">>

EnvFoo == << <<<<"FOO">>, <<"bar">>>> >>

\* Two variables, in the caller's order.
EnvTwo == << <<<<"B">>, <<"2">>>>, <<<<"A">>, <<"1">>>> >>

\* A command with blanks around it.
CmdPadded == <<BLANK>> \o CmdEcho \o <<BLANK>>

\* Every operation, with arguments that pass and arguments that fail the
\* checks made before _ensure_connected.
OpsInputs ==
    { <<"read", [NoArg EXCEPT !.p = PathSub]>>,
      <<"read", [NoArg EXCEPT !.p = PathEscaping]>>,
      <<"write", [NoArg EXCEPT !.p = PathSub]>>,
      <<"write", [NoArg EXCEPT !.p = PathFile]>>,
      <<"write", [NoArg EXCEPT !.p = PathUpUpEtcPasswd]>>,
      <<"rename", [NoArg EXCEPT !.p = PathFile, !.p2 = PathSub]>>,
      <<"rename", [NoArg EXCEPT !.p = PathFile, !.p2 = PathEscaping]>>,
      <<"rename", [NoArg EXCEPT !.p = PathEscaping, !.p2 = PathFile]>>,
      <<"rm", [NoArg EXCEPT !.p = PathFile]>>,
      <<"rm", [NoArg EXCEPT !.p = PathDir, !.recursive = TRUE, !.force = TRUE]>>,
      <<"rm", [NoArg EXCEPT !.p = PathEscaping, !.force = TRUE]>>,
      <<"readdir", [NoArg EXCEPT !.p = DOT]>>,
      <<"readdir", [NoArg EXCEPT !.p = PathRootTraversal]>>,
      <<"mkdir", [NoArg EXCEPT !.p = PathDir, !.recursive = TRUE]>>,
      <<"mkdir", [NoArg EXCEPT !.p = PathDir]>>,
      <<"mkdir", [NoArg EXCEPT !.p = PathEscaping]>>,
      <<"touch", [NoArg EXCEPT !.p = PathFile]>>,
      <<"touch", [NoArg EXCEPT !.p = PathEscaping]>>,
      <<"exists", [NoArg EXCEPT !.p = PathEtcPasswd]>>,
      <<"exists", [NoArg EXCEPT !.p = PathEscaping]>>,
      <<"stat", [NoArg EXCEPT !.p = PathFile]>>,
      <<"stat", [NoArg EXCEPT !.p = PathEscaping]>>,
      <<"exec", [NoArg EXCEPT !.cmd = CmdEcho]>>,
      <<"exec", [NoArg EXCEPT !.cmd = CmdEcho, !.cwd = RootWs \o <<SEP, "sub">>,
                              !.env = EnvFoo]>>,
      <<"exec", [NoArg EXCEPT !.cmd = CmdPadded, !.env = EnvTwo]>>,
      <<"exec", [NoArg EXCEPT !.cmd = CmdBlank]>>,
      <<"exec", [NoArg EXCEPT !.cmd = <<>>]>>,
      <<"exec", [NoArg EXCEPT !.cmd = CmdDangerous]>>,
      <<"exec", [NoArg EXCEPT !.cmd = CmdUnsafe]>> }

\* Operations called on the scoped child.
ScopedInputs ==
    { <<"read", [NoArg EXCEPT !.p = PathFile]>>,
      <<"read", [NoArg EXCEPT !.p = PathUpX]>>,
      <<"read", [NoArg EXCEPT !.p = PathUpUpEtcPasswd]>> }

Caller == "c1"

\* Each behaviour exercises one operation with one argument list, called
\* again and again on every state the connection can be brought into.
InitOps ==
    /\ cfg \in OpsConfigs
    /\ InitBackend
    /\ recording = TRUE
    /\ vin = NoPath
    /\ vout = NoOut
    /\ maxT = MaxTransports
    /\ opin \in { [op |-> i[1], arg |-> i[2], scope |-> <<>>] : i \in OpsInputs }
                \cup { [op |-> i[1], arg |-> i[2], scope |-> ScopeProj] :
                         i \in ScopedInputs }
    /\ cfg = TestConfig
       => opin = [op |-> "exec", arg |-> [NoArg EXCEPT !.cmd = CmdEcho], scope |-> <<>>]

NextOps ==
    \/ Connect(Caller)
    \/ opin.scope = <<>> /\ BeginOp(Caller, opin.op, opin.arg)
    \/ opin.scope # <<>> /\ ScopedOp(Caller, opin.op, opin.arg, opin.scope)
    \/ WsOpen(Caller)
    \/ WsFail(Caller)
    \/ SshOk(Caller)
    \/ SshFail(Caller)
    \/ \E r \in 1..MaxTransports : TimerFire(r)
    \/ \E r \in 1..MaxTransports : RWsOpen(r)
    \/ \E r \in 1..MaxTransports : RWsFail(r)
    \/ \E r \in 1..MaxTransports : RSshOk(r)
    \/ \E r \in 1..MaxTransports : RSshFail(r)
    \/ SftpStarted(Caller)
    \/ SftpFail(Caller)
    \/ IoOk(Caller)
    \/ \E how \in {"raise", "nonzero"} : IoFail(Caller, how)
    \/ \E T \in 1..MaxTransports : ConnectionLost(T)
    \/ DestroyBegin(Caller)
    \/ DestroySshClosed(Caller)
    \/ DestroyWsClosed(Caller)

SpecOps == InitOps /\ [][NextOps]_vars

\* ------------------------------------------------------------------------
\* Reconnection: connect() only, up to MaxAttempts dials
\* ------------------------------------------------------------------------
\* A connect attempt fails at the WebSocket dial or succeeds; the caller may
\* call connect() again at any time.
BackoffConfigs ==
    { Config(RootWs, Policy(TRUE, n), TRUE) : n \in {0, 1, 3} }

InitBackoff ==
    /\ cfg \in BackoffConfigs
    /\ InitBackend
    /\ recording = FALSE
    /\ vin = NoPath
    /\ vout = NoOut
    /\ opin = NoOp
    /\ maxT = MaxAttempts

NextBackoff ==
    \/ Connect(Caller)
    \/ WsOpen(Caller)
    \/ WsFail(Caller)
    \/ SshOk(Caller)
    \/ \E r \in 1..MaxAttempts : TimerFire(r)
    \/ \E r \in 1..MaxAttempts : RWsOpen(r)
    \/ \E r \in 1..MaxAttempts : RWsFail(r)
    \/ \E r \in 1..MaxAttempts : RSshOk(r)

SpecBackoff == InitBackoff /\ [][NextBackoff]_vars

\* ------------------------------------------------------------------------
\* VercelAIAdapter over the backend
\* ------------------------------------------------------------------------
\* The MCP transports get_mcp_transport may hand out: with params (stdio),
\* with url (HTTP), with neither.
TransportKinds == {"stdio", "http", "other"}

AdapterOp == "adapter.get_mcp_client"

\* adapter.get_mcp_client() up to its first await, backend.get_mcp_transport().
AdapterBegin(t) ==
    /\ Free(t)
    /\ nextC + 2 * Cardinality({ u \in Callers : task[u].pc # "idle" }) + 2
         <= 2 * MaxClients
    /\ Settle(t, [NewTask(AdapterOp, NoArg) EXCEPT
                    !.pc = "mcp-transport",
                    !.calls = <<Call("get_mcp_transport", <<>>, <<>>)>>])
    /\ NoEvents
    /\ UNCHANGED <<cfg, backendVars, pathVars>>

\* get_mcp_transport returned a transport (added to _closeables); wait_for
\* starts _create_client, which raises ValueError for a transport with neither
\* params nor url and else awaits the transport context's __aenter__.
AdapterTransportOk(t, kind) ==
    /\ task[t].pc = "mcp-transport"
    /\ nextC' = nextC + 1
    /\ closeables' = closeables \cup {nextC + 1}
    /\ Settle(t, IF kind = "other" THEN Done(task[t], "ValueError")
                 ELSE [task[t] EXCEPT !.pc = "open",
                                      !.calls = Append(@, Call(kind, <<>>, <<>>))])
    /\ NoEvents
    /\ UNCHANGED <<cfg, status, transport, tstate, closedC, scopeVars, retry,
                   reconnectTask, rt, pathVars>>

\* get_mcp_transport raised.
AdapterTransportFail(t) ==
    /\ task[t].pc = "mcp-transport"
    /\ Settle(t, Done(task[t], "McpError"))
    /\ NoEvents
    /\ UNCHANGED <<cfg, backendVars, pathVars>>

\* The next await of _create_client returned: the context's __aenter__, then
\* session.__aenter__(), then session.initialize(), after which _create_client
\* returns the session.
ClientStep(t) ==
    /\ task[t].pc \in {"open", "enter", "initialize"}
    /\ Settle(t, [task[t] EXCEPT
                    !.pc = CASE task[t].pc = "open" -> "enter"
                             [] task[t].pc = "enter" -> "initialize"
                             [] task[t].pc = "initialize" -> "created",
                    !.calls = Append(@, Call(task[t].pc, <<>>, <<>>))])
    /\ NoEvents
    /\ UNCHANGED <<cfg, backendVars, pathVars>>

\* An await of _create_client raised.
ClientFail(t) ==
    /\ task[t].pc \in {"open", "enter", "initialize"}
    /\ Settle(t, Done(task[t], "McpError"))
    /\ NoEvents
    /\ UNCHANGED <<cfg, backendVars, pathVars>>

\* wait_for's timeout expired: _create_client is cancelled and a timeout
\* error is raised.  When _create_client has just returned, the wait_for of
\* Python 3.11 returns the session and the one of 3.12 may still raise.
AdapterTimeout(t) ==
    /\ task[t].pc \in {"open", "enter", "initialize", "created"}
    /\ Settle(t, Done(task[t], "timeout"))
    /\ NoEvents
    /\ UNCHANGED <<cfg, backendVars, pathVars>>

\* An adapter that returns the session without track_closeable.
AdapterReturnUntracked(t) ==
    /\ task[t].pc = "created"
    /\ Settle(t, Done(task[t], "ok"))
    /\ NoEvents
    /\ UNCHANGED <<cfg, backendVars, pathVars>>

\* wait_for returned the session: backend.track_closeable(client), return.
AdapterReturn(t) ==
    /\ task[t].pc = "created"
    /\ nextC' = nextC + 1
    /\ closeables' = closeables \cup {nextC + 1}
    /\ Settle(t, Done([task[t] EXCEPT
                         !.calls = Append(@, Call("track_closeable", <<nextC + 1>>, <<>>))],
                      "ok"))
    /\ NoEvents
    /\ UNCHANGED <<cfg, status, transport, tstate, closedC, scopeVars, retry,
                   reconnectTask, rt, pathVars>>

InitAdapter ==
    /\ cfg \in LifeConfigs
    /\ InitBackend
    /\ recording = TRUE
    /\ vin = NoPath
    /\ vout = NoOut
    /\ opin = NoOp
    /\ maxT = MaxTransports

NextAdapter ==
    \/ \E t \in Callers : AdapterBegin(t)
    \/ \E t \in Callers : \E kind \in TransportKinds : AdapterTransportOk(t, kind)
    \/ \E t \in Callers : AdapterTransportFail(t)
    \/ \E t \in Callers : ClientStep(t)
    \/ \E t \in Callers : ClientFail(t)
    \/ \E t \in Callers : AdapterTimeout(t)
    \/ \E t \in Callers : AdapterReturn(t)

SpecAdapter == InitAdapter /\ [][NextAdapter]_vars

\* ------------------------------------------------------------------------
\* exec's output on its own: stdout and max_output_length from bounded sets
\* ------------------------------------------------------------------------
\* output[:k]
Slice(s, k) ==
    IF k >= 0 THEN SubSeq(s, 1, IF k < Len(s) THEN k ELSE Len(s))
    ELSE SubSeq(s, 1, IF Len(s) + k > 0 THEN Len(s) + k ELSE 0)

\* The characters the truncation leaves room for the notice with.
NoticeReserve == 50

\* What exec returns for exit code 0: the stripped stdout, or its slice and
\* the notice '... [Output truncated. Full output was {full} characters,
\* showing first {shown}]'.
ExecOutput(stdout, maxLen) ==
    IF maxLen # 0 /\ Len(Strip(stdout)) > maxLen
    THEN [text |-> Slice(Strip(stdout), maxLen - NoticeReserve), truncated |-> TRUE,
          full |-> Len(Strip(stdout)), shown |-> maxLen - NoticeReserve]
    ELSE [text |-> Strip(stdout), truncated |-> FALSE, full |-> 0, shown |-> 0]

\* n distinct characters.
Chars(n) == [i \in 1..n |-> ToString(i)]

Stdouts ==
    { lead \o Chars(n) \o trail :
        n \in 0..MaxStdout, lead \in {<<>>, <<BLANK>>}, trail \in {<<>>, <<BLANK>>} }

InitExec ==
    /\ cfg \in { c \in LifeConfigs : c.enabled /\ c.maxRetries = 0 }
    /\ InitBackend
    /\ recording = FALSE
    /\ vin \in [stdout : Stdouts, max : 0..MaxLimit]
    /\ vout = NoOut
    /\ opin = NoOp
    /\ maxT = MaxTransports

\* transport.run returned exit code 0 with vin.stdout: exec's return value
ExecReturn ==
    /\ vout' = [kind |-> "exec", res |-> ExecOutput(vin.stdout, vin.max)]
    /\ UNCHANGED <<cfg, lastEvents, obsVars, backendVars, task, last, vin, recording,
                   opin, maxT>>

NextExec == ExecReturn

SpecExec == InitExec /\ [][NextExec]_vars

\* ------------------------------------------------------------------------
\* The chat example: reassembly of a streamed completion
\* ------------------------------------------------------------------------
\* tool_calls_map[idx] = {"id": "", "name": "", "arguments": ""}
NewToolCall == [id |-> "", name |-> "", arguments |-> <<>>]

NoToolCalls == [i \in {} |-> NewToolCall]

\* An accumulation that keeps the first fragment of the arguments only.
AccumulateKeepFirst(map, tc) ==
    LET m == IF tc.index \in DOMAIN map THEN map ELSE map @@ (tc.index :> NewToolCall)
    IN [m EXCEPT ![tc.index] =
          [id |-> IF tc.id # "" THEN tc.id ELSE @.id,
           name |-> IF tc.name # "" THEN tc.name ELSE @.name,
           arguments |-> IF @.arguments = <<>> THEN tc.arguments ELSE @.arguments]]

\* One tool-call delta tc = [index, id, name, arguments] is accumulated: the
\* entry is created on first sight of the index, a non-empty id or name
\* replaces the entry's, a non-empty fragment is appended to its arguments.
Accumulate(map, tc) ==
    LET m == IF tc.index \in DOMAIN map THEN map ELSE map @@ (tc.index :> NewToolCall)
    IN [m EXCEPT ![tc.index] =
          [id |-> IF tc.id # "" THEN tc.id ELSE @.id,
           name |-> IF tc.name # "" THEN tc.name ELSE @.name,
           arguments |-> @.arguments \o tc.arguments]]

\* for tc in delta.tool_calls
RECURSIVE AccumulateAll(_, _)
AccumulateAll(map, tcs) ==
    IF tcs = <<>> THEN map ELSE AccumulateAll(Accumulate(map, Head(tcs)), Tail(tcs))

\* A loop body in which a chunk with tool calls starts the content anew.
ConsumeChunkShared(acc, chunk) ==
    [content |-> IF chunk.tool_calls = <<>> THEN acc.content \o chunk.content
                 ELSE chunk.content,
     map |-> AccumulateAll(acc.map, chunk.tool_calls)]

\* The body of `for chunk in stream`: a chunk is [content, tool_calls]; its
\* content goes to assistant_content, its tool calls to tool_calls_map.
ConsumeChunk(acc, chunk) ==
    [content |-> acc.content \o chunk.content,
     map |-> AccumulateAll(acc.map, chunk.tool_calls)]

\* for chunk in stream: the two accumulators after the whole stream.
RECURSIVE Consume(_, _)
Consume(acc, stream) ==
    IF stream = <<>> THEN acc
    ELSE Consume(ConsumeChunk(acc, Head(stream)), Tail(stream))

\* sorted(tool_calls_map)
RECURSIVE Sorted(_)
Sorted(S) ==
    IF S = {} THEN <<>>
    ELSE LET lo == CHOOSE x \in S : \A y \in S : x <= y
         IN <<lo>> \o Sorted(S \ {lo})

\* tool_calls_list: one entry per index, in the order given.
ToolCallsList(map, order) ==
    [k \in 1..Len(order) |->
       [id |-> map[order[k]].id, type |-> "function", name |-> map[order[k]].name,
        arguments |-> map[order[k]].arguments]]

\* assistant_msg: the content and tool_calls keys are present only when not
\* empty (an empty value stands for an absent key).
AssistantMsg(acc) ==
    [role |-> "assistant", content |-> acc.content,
     tool_calls |-> ToolCallsList(acc.map, Sorted(DOMAIN acc.map)),
     tool_call_id |-> ""]

\* The assistant message run_chat builds from a stream.
Reassembled(stream) == AssistantMsg(Consume([content |-> <<>>, map |-> NoToolCalls], stream))

\* The deltas of the streams: n text deltas, each different from the others,
\* and tool-call deltas of two indices that carry the id and the name of the
\* call or a fragment of its arguments.
TextDeltas(n) == [k \in 1..n |-> <<ToString(k)>>]

ToolDelta(i, id, name, args) == [index |-> i, id |-> id, name |-> name, arguments |-> args]

ToolDeltas ==
    { ToolDelta(0, "x", "f", <<>>), ToolDelta(1, "y", "g", <<>>) }
    \cup { ToolDelta(i, "", "", <<a>>) : i \in {0, 1}, a \in {"1", "2"} }

\* The sequences over S of at most n elements.
RECURSIVE SeqsUpTo(_, _)
SeqsUpTo(S, n) ==
    IF n = 0 THEN {<<>>}
    ELSE SeqsUpTo(S, n - 1)
         \cup { Append(q, x) : q \in { r \in SeqsUpTo(S, n - 1) : Len(r) = n - 1 }, x \in S }

\* The ways n text deltas and m tool-call deltas arrive: a chunk carries the
\* next text delta ("c"), the next tool-call delta ("t"), or both ("b").
RECURSIVE Weaves(_, _)
Weaves(n, m) ==
    IF n = 0 /\ m = 0 THEN {<<>>}
    ELSE (IF n > 0 THEN { <<"c">> \o w : w \in Weaves(n - 1, m) } ELSE {})
         \cup (IF m > 0 THEN { <<"t">> \o w : w \in Weaves(n, m - 1) } ELSE {})
         \cup (IF n > 0 /\ m > 0 THEN { <<"b">> \o w : w \in Weaves(n - 1, m - 1) }
               ELSE {})

\* The stream in which the text deltas and the tool-call deltas arrive as
\* the weave w says.
RECURSIVE Weave(_, _, _)
Weave(text, tools, w) ==
    IF w = <<>> THEN <<>>
    ELSE CASE Head(w) = "c" ->
                <<[content |-> Head(text), tool_calls |-> <<>>]>>
                \o Weave(Tail(text), tools, Tail(w))
           [] Head(w) = "t" ->
                <<[content |-> <<>>, tool_calls |-> <<Head(tools)>>]>>
                \o Weave(text, Tail(tools), Tail(w))
           [] Head(w) = "b" ->
                <<[content |-> Head(text), tool_calls |-> <<Head(tools)>>]>>
                \o Weave(Tail(text), Tail(tools), Tail(w))

InitStream ==
    /\ cfg \in { c \in LifeConfigs : c.enabled /\ c.maxRetries = 0 }
    /\ InitBackend
    /\ recording = FALSE
    /\ \E text \in { TextDeltas(n) : n \in 0..MaxTextDeltas } :
       \E tools \in SeqsUpTo(ToolDeltas, MaxToolDeltas) :
       \E w \in Weaves(Len(text), Len(tools)) :
          vin = [text |-> text, tools |-> tools, weave |-> w]
    /\ vout = NoOut
    /\ opin = NoOp
    /\ maxT = MaxTransports

\* One completion is streamed and its assistant message built.
Reassemble ==
    /\ vout' = [kind |-> "assistant",
                res |-> Reassembled(Weave(vin.text, vin.tools, vin.weave))]
    /\ UNCHANGED <<cfg, lastEvents, obsVars, backendVars, task, last, vin, recording,
                   opin, maxT>>

NextStream == Reassemble

SpecStream == InitStream /\ [][NextStream]_vars

\* ------------------------------------------------------------------------
\* The chat example: the loop of run_chat
\* ------------------------------------------------------------------------
\* for _step in range(15)
StepLimit == 15

UserMsg == [role |-> "user", content |-> <<"hi">>, tool_calls |-> <<>>, tool_call_id |-> ""]

\* {"role": "tool", "tool_call_id": tc["id"], "content": result_text}
ToolMsg(tc) ==
    [role |-> "tool", content |-> <<"result">>, tool_calls |-> <<>>, tool_call_id |-> tc.id]

\* The completions of the model: text only, one tool call, two tool calls
\* whose deltas arrive out of index order, one tool call whose arguments are
\* not complete JSON.
TextStream == <<[content |-> <<"ok">>, tool_calls |-> <<>>]>>

Fragment(i, a) == [content |-> <<>>, tool_calls |-> <<ToolDelta(i, "", "", <<a>>)>>]

Header(i, id, name) == [content |-> <<>>, tool_calls |-> <<ToolDelta(i, id, name, <<>>)>>]

OneCallStream == <<Header(0, "x", "f"), Fragment(0, "{"), Fragment(0, "}")>>

TwoCallStream ==
    <<Header(1, "y", "g"), Header(0, "x", "f"), Fragment(1, "{"), Fragment(0, "{"),
      Fragment(0, "}"), Fragment(1, "}")>>

BadArgsStream == <<Header(0, "x", "f"), Fragment(0, "{")>>

ToolStreams == {OneCallStream, TwoCallStream, BadArgsStream}

\* The stream of the k-th completion of a turn: the model asks for tools in
\* every completion before its vin.first-th.
ModelStream(k) == IF k < vin.first THEN vin.stream ELSE TextStream

\* json.loads(args_str) if args_str else {}: whether it returns.
Parses(args) == args = <<>> \/ args = <<"{", "}">>

\* The k-th tool call of the list is dispatched: json.loads, then the await
\* of session.call_tool.
Dispatch(c, k) ==
    IF Parses(c.list[k].arguments) THEN [c EXCEPT !.pc = "calling", !.k = k]
    ELSE [c EXCEPT !.pc = "crashed", !.k = k]

\* A loop that goes on after the last step.
AfterToolsUnbounded(c) == [c EXCEPT !.pc = "streaming", !.step = @ + 1]

\* The tool calls of a step are done: the next step's completion is opened,
\* or the for loop is exhausted and the prompt comes back.
AfterTools(c) ==
    IF c.step < StepLimit THEN [c EXCEPT !.pc = "streaming", !.step = @ + 1]
    ELSE [c EXCEPT !.pc = "prompt"]

\* A history in which the newest tool message comes first after the
\* assistant message.
AppendToolMsgFirst(msgs, n, tc) ==
    SubSeq(msgs, 1, Len(msgs) - n) \o <<ToolMsg(tc)>>
    \o SubSeq(msgs, Len(msgs) - n + 1, Len(msgs))

\* messages.append of the tool message of tc, the n-th of the turn's step
\* counted from 0.
AppendToolMsg(msgs, n, tc) == Append(msgs, ToolMsg(tc))

InitChat ==
    /\ cfg \in { c \in LifeConfigs : c.enabled /\ c.maxRetries = 0 }
    /\ InitBackend
    /\ recording = FALSE
    /\ vin \in [first : 1..(StepLimit + 2), stream : ToolStreams]
    /\ vout = [kind |-> "chat", pc |-> "prompt", turns |-> 0, blanks |-> 0,
               step |-> 0, messages |-> <<>>, list |-> <<>>, k |-> 0]
    /\ opin = NoOp
    /\ maxT = MaxTransports

ChatUnchanged ==
    UNCHANGED <<cfg, lastEvents, obsVars, backendVars, task, last, vin, recording,
                opin, maxT>>

\* The lines input() returns, "exit" apart: a message, nothing, blanks.
ChatInputs == {UserMsg.content, <<>>, <<BLANK, BLANK>>}

\* A prompt that takes every line for a message.
PromptedAnyLine(c, text) ==
    [c EXCEPT !.pc = "streaming", !.turns = @ + 1, !.step = 1,
              !.messages = Append(@, [UserMsg EXCEPT !.content = text]),
              !.list = <<>>, !.k = 0]

\* The loop after input() returned text: a blank line goes back to the
\* prompt (blanks counts them); anything else is appended as the user
\* message and the first completion of the turn is opened.
Prompted(c, text) ==
    IF Strip(text) = <<>> THEN [c EXCEPT !.blanks = @ + 1]
    ELSE [c EXCEPT !.pc = "streaming", !.turns = @ + 1, !.step = 1,
                   !.messages = Append(@, [UserMsg EXCEPT !.content = text]),
                   !.list = <<>>, !.k = 0]

\* input() returned a line.
UserInput ==
    /\ vout.pc = "prompt"
    /\ \E text \in ChatInputs :
         /\ vout.turns < MaxTurns
         /\ Strip(text) = <<>> => vout.blanks < MaxBlanks
         /\ vout' = Prompted(vout, text)
    /\ ChatUnchanged

\* input() returned "exit" or raised EOFError / KeyboardInterrupt.
UserExit ==
    /\ vout.pc = "prompt"
    /\ vout' = [vout EXCEPT !.pc = "exited"]
    /\ ChatUnchanged

\* The stream of the open completion has been consumed: the assistant
\* message is appended; without tool calls the turn is over, else the first
\* tool call is dispatched.
Completion ==
    /\ vout.pc = "streaming"
    /\ LET msg == Reassembled(ModelStream(vout.step))
           c == [vout EXCEPT !.messages = Append(@, msg), !.list = msg.tool_calls,
                             !.k = 0]
       IN vout' = IF msg.tool_calls = <<>> THEN [c EXCEPT !.pc = "prompt"]
                  ELSE Dispatch(c, 1)
    /\ ChatUnchanged

\* The completion request or its stream raised.
CompletionFails ==
    /\ vout.pc = "streaming"
    /\ vout' = [vout EXCEPT !.pc = "crashed"]
    /\ ChatUnchanged

\* session.call_tool returned: the tool message is appended; the next tool
\* call is dispatched, or the step is over.
ToolReturned ==
    /\ vout.pc = "calling"
    /\ LET c == [vout EXCEPT !.messages =
                     AppendToolMsg(@, vout.k - 1, vout.list[vout.k])]
       IN vout' = IF vout.k < Len(vout.list) THEN Dispatch(c, vout.k + 1)
                  ELSE AfterTools(c)
    /\ ChatUnchanged

\* session.call_tool raised.
ToolRaised ==
    /\ vout.pc = "calling"
    /\ vout' = [vout EXCEPT !.pc = "crashed"]
    /\ ChatUnchanged

NextChat ==
    \/ UserInput
    \/ UserExit
    \/ Completion
    \/ CompletionFails
    \/ ToolReturned
    \/ ToolRaised

SpecChat == InitChat /\ [][NextChat]_vars

\* The completion service and the tool session answer: a step that can be
\* taken within a turn is taken.
SpecChatLive ==
    /\ SpecChat
    /\ WF_vars(CompletionFails \/ Completion)
    /\ WF_vars(ToolRaised \/ ToolReturned)

\* ------------------------------------------------------------------------
\* Observers: one caller connects, the other subscribes callbacks meanwhile,
\* the reconnect timers run, and either caller destroys the backend
\* ------------------------------------------------------------------------
InitObs ==
    /\ cfg \in { c \in LifeConfigs : c.maxRetries = 0 }
    /\ InitBackend
    /\ recording = FALSE
    /\ vin = NoPath
    /\ vout = NoOut
    /\ opin = NoOp
    /\ maxT = MaxTransports

NextObs ==
    \/ \E t \in Callers \ {Caller} : Subscribe(t)
    \/ Connect(Caller)
    \/ WsOpen(Caller)
    \/ WsFail(Caller)
    \/ SshOk(Caller)
    \/ \E r \in 1..MaxTransports : TimerFire(r)
    \/ \E r \in 1..MaxTransports : RWsOpen(r)
    \/ \E r \in 1..MaxTransports : RWsFail(r)
    \/ \E r \in 1..MaxTransports : RSshOk(r)
    \/ \E t \in Callers : DestroyBegin(t)
    \/ \E t \in Callers : DestroySshClosed(t)
    \/ \E t \in Callers : DestroyWsClosed(t)
    \/ \E t \in Callers : DestroyCloseFail(t)

SpecObs == InitObs /\ [][NextObs]_vars

\* ------------------------------------------------------------------------
\* Properties of the connection lifecycle (Spec)
\* ------------------------------------------------------------------------
\* C1: once the status is destroyed it never changes again, whatever connect()
\* calls, operations, timer firings or further destroy() calls follow.
C1_DestroyedIsAbsorbing == [][status = "destroyed" => status' = "destroyed"]_vars

\* C1 witness: connect() is under way on a backend that is already destroyed.
C1_ConnectAfterDestroy ==
    /\ status = "destroyed"
    /\ \E t \in Callers : task[t].op = "connect" /\ task[t].pc = "ssh"

\* C3: whenever the status is destroyed the backend holds no transport and
\* every closeable handed to it has been closed.
C3_DestroyedHoldsNothing ==
    status = "destroyed" => transport = 0 /\ \A c \in 1..nextC : c \in closedC

\* C4: whenever the status is connected the backend's transport is non-null,
\* at every suspension point of connect, the reconnect task and destroy.
C4_ConnectedHasTransport == status = "connected" => transport # 0

\* C4 witness: destroy() is suspended in transport.close() while the status is
\* still connected.
C4_ConnectedWhileClosing ==
    /\ status = "connected"
    /\ \E t \in Callers : task[t].op = "destroy" /\ task[t].pc = "closeT1"

\* The transitions of the lifecycle diagram.
LifecycleTransitions ==
    { <<"disconnected", "connecting">>, <<"connecting", "connected">>,
      <<"connecting", "disconnected">>, <<"connected", "disconnected">>,
      <<"disconnected", "reconnecting">>, <<"reconnecting", "connecting">> }
    \cup { <<st, "destroyed">> : st \in Status \ {"destroyed"} }

\* C5: every status change emitted is a transition of the lifecycle diagram.
C5_EventsFollowDiagram ==
    \A i \in 1..Len(lastEvents) : lastEvents[i] \in LifecycleTransitions

\* ------------------------------------------------------------------------
\* Properties of path validation (SpecPath)
\* ------------------------------------------------------------------------
Validated == vout.kind \in {"validate", "resolve"}

\* p is root itself or a lexical descendant of it, with no ".." left in it.
Inside(p, root) ==
    /\ Len(p) >= Len(root)
    /\ SubSeq(p, 1, Len(root)) = root
    /\ Len(p) > Len(root) => p[Len(root) + 1] = SEP
    /\ \A i \in 1..Len(Split(p)) : Split(p)[i] # DOTDOT

\* C6: a validation that succeeds returns the root or a lexical descendant of
\* it, never a path outside the root.
C6_ResultInsideRoot ==
    Validated /\ vout.res # ESCAPE => Inside(vout.res, vin.root)

\* C6 witness: an absolute path with a ".." segment, validated into the root.
C6_AbsoluteDotDotValidated ==
    /\ vout.kind = "resolve"
    /\ vin.root = RootWorkspace
    /\ vin.path = <<SEP, "a", SEP>> \o DOTDOT \o <<SEP, "ws">>
    /\ vout.res = RootWorkspace \o <<SEP, "ws">>

\* The path joined to the root (as a relative path when it is an absolute one
\* outside the root) normalises to a path that is not under the root.
Escapes(p, root) ==
    /\ ~(IsAbs(p) /\ UnderRoot(NormPath(p), root))
    /\ ~UnderRoot(NormPath(root \o <<SEP>> \o (IF IsAbs(p) THEN Tail(p) ELSE p)), root)

EscapeExamples ==
    {PathEscaping, PathComplexTraversal, PathRootTraversal,
     <<"a", SEP>> \o PathRootTraversal}

\* C7: validation fails with path-escape whenever the joined, normalised path
\* is not under the root, in native and in posix mode alike; so it does for
\* '../etc/passwd', 'a/b/../../../../etc', '../../..' and 'a/../../..'.
C7_EscapeRejected ==
    Validated /\ (Escapes(vin.path, vin.root) \/ vin.path \in EscapeExamples)
        => vout.res = ESCAPE

\* C7 witness: 'a/b/../../../../etc' rejected in native mode.
C7_ComplexTraversalRejected ==
    /\ vout.kind = "validate"
    /\ ~vin.posix
    /\ vin.path = PathComplexTraversal
    /\ vout.res = ESCAPE

\* What C8 says of every input but the absolute paths under the root.
C8_Common ==
    /\ IsAbs(vin.path) /\ ~UnderRoot(NormPath(vin.path), vin.root)
           /\ UnderRoot(NormPath(vin.root \o vin.path), vin.root)
       => vout.res = NormPath(vin.root \o vin.path)
    /\ vin.path = PathEtcPasswd /\ vin.root = RootWorkspace
       => vout.res = RootWorkspace \o PathEtcPasswd
    /\ vin.path \in {DOT, vin.root} => vout.res = vin.root

\* C8: an absolute path that is not the root or under it is validated as the
\* same path relative to the root, not rejected ('/etc/passwd' under
\* '/workspace' gives '/workspace/etc/passwd'); an absolute path under the root
\* is returned in normalised form, unchanged when it is already normalised;
\* '.' and the root map to the root.
C8_AbsoluteTreatedAsRelative ==
    Validated =>
        /\ C8_Common
        /\ IsAbs(vin.path) /\ UnderRoot(NormPath(vin.path), vin.root)
           => vout.res = NormPath(vin.path)
        /\ IsAbs(vin.path) /\ UnderRoot(vin.path, vin.root)
               /\ vin.path = NormPath(vin.path)
           => vout.res = vin.path

\* C8 witness: '/etc/passwd' resolved under '/workspace'.
C8_EtcPasswdUnderWorkspace ==
    /\ vout.kind = "resolve"
    /\ vin.root = RootWorkspace
    /\ vin.path = PathEtcPasswd
    /\ vout.res = RootWorkspace \o PathEtcPasswd

\* C8 as stated: every absolute path that is the root or lexically under it is
\* returned unchanged.
C8_AbsoluteUnderRootUnchanged ==
    Validated =>
        /\ C8_Common
        /\ IsAbs(vin.path) /\ UnderRoot(vin.path, vin.root) => vout.res = vin.path

\* ------------------------------------------------------------------------
\* Properties of the operations (SpecOps)
\* ------------------------------------------------------------------------
\* The caller's operation: the one under way, else the one that returned or
\* raised in the last step.
Current ==
    IF task[Caller].pc # "idle"
    THEN [op |-> task[Caller].op, arg |-> task[Caller].arg,
          scope |-> task[Caller].scope, res |-> "pending",
          calls |-> task[Caller].calls]
    ELSE last

\* This step is the call of a file or exec operation on the backend itself
\* (direct) or on its scoped child.
OpCalled(direct) ==
    /\ task[Caller].pc = "idle"
    /\ Current'.op \in FileOps
    /\ (Current'.scope = <<>>) = direct

\* No connection attempt, no transport call, nothing of the connection changed.
NoIo ==
    /\ Current'.calls = <<>>
    /\ lastEvents' = <<>>
    /\ UNCHANGED <<status, transport, tstate, retry, reconnectTask, rt>>

PathInRoot(root, p) == UnderRoot(ResolvePath(root, p), root)

\* Arguments that pass every check made before _ensure_connected.
GoodArgs(o, a) ==
    IF o = "exec"
    THEN /\ \E i \in 1..Len(a.cmd) : a.cmd[i] # BLANK
         /\ ~(cfg.preventDangerous /\ (IsDangerous(a.cmd) \/ ~IsCommandSafe(a.cmd)))
    ELSE /\ PathInRoot(cfg.root, a.p)
         /\ o = "rename" => PathInRoot(cfg.root, a.p2)

\* C2: an operation called with good arguments on a destroyed backend fails
\* with connection-closed, with no connection attempt and no transport call.
C2_DestroyedFailsClosed ==
    [][status = "destroyed" /\ OpCalled(TRUE) /\ GoodArgs(Current'.op, Current'.arg)
       => Current'.res = "connection-closed" /\ NoIo]_vars

\* C2 witness: write() on a destroyed backend raised connection-closed.
C2_WriteOnDestroyed ==
    /\ status = "destroyed"
    /\ last.op = "write"
    /\ last.res = "connection-closed"

\* The error the arguments must be refused with, or "none".
Refusal(o, a) ==
    IF o = "exec"
    THEN IF \A i \in 1..Len(a.cmd) : a.cmd[i] = BLANK THEN "empty-command"
         ELSE IF cfg.preventDangerous /\ IsDangerous(a.cmd) THEN "dangerous-operation"
         ELSE IF cfg.preventDangerous /\ ~IsCommandSafe(a.cmd) THEN "unsafe-command"
         ELSE "none"
    ELSE IF ~PathInRoot(cfg.root, a.p) \/ (o = "rename" /\ ~PathInRoot(cfg.root, a.p2))
         THEN "path-escape"
    ELSE "none"

\* C9: a path that escapes the root, a whitespace-only command and (with
\* prevent_dangerous) a dangerous or unsafe command are refused before any
\* I/O: no connection attempt, no transport call, and status, transport, retry
\* counter and reconnect timer unchanged, whatever the connection's state.
C9_RefusedBeforeIo ==
    [][OpCalled(TRUE) /\ Refusal(Current'.op, Current'.arg) # "none"
       => Current'.res = Refusal(Current'.op, Current'.arg) /\ NoIo]_vars

\* C9 witness: an operation was refused while the backend was not connected
\* and its reconnect timer was pending.
C9_RefusedWhileReconnecting ==
    /\ last.res \in {"path-escape", "empty-command", "dangerous-operation",
                     "unsafe-command"}
    /\ status = "reconnecting"
    /\ reconnectTask # 0
    /\ rt[reconnectTask].pc = "sleep"

\* The path, joined to the scoped child's effective root, normalises to a path
\* outside that root.
EscapesScope(root, scope, p) ==
    /\ ~IsAbs(p)
    /\ ~UnderRoot(NormPath(root \o <<SEP>> \o scope \o <<SEP>> \o p),
                  root \o <<SEP>> \o scope)

\* C10: an operation on a scoped child whose path escapes the effective root
\* join(parent.root, scope_path) fails with path-escape and nothing reaches
\* the parent's transport; so does read('../../etc/passwd') with parent root
\* '/ws' and scope 'proj'.
C10_ScopedEscapeRefused ==
    [][OpCalled(FALSE)
         /\ \/ EscapesScope(cfg.root, Current'.scope, Current'.arg.p)
            \/ /\ Current'.op = "rename"
               /\ EscapesScope(cfg.root, Current'.scope, Current'.arg.p2)
       => Current'.res = "path-escape" /\ NoIo]_vars

\* C10 witness: read('../../etc/passwd') on the child 'proj' of a backend
\* rooted at '/ws' raised path-escape.
C10_ScenarioF ==
    /\ cfg.root = RootWs
    /\ last.scope = ScopeProj
    /\ last.op = "read"
    /\ last.arg.p = PathUpUpEtcPasswd
    /\ last.res = "path-escape"
    /\ last.calls = <<>>

\* ------------------------------------------------------------------------
\* Properties of the reconnection controller (Spec)
\* ------------------------------------------------------------------------
\* The reconnect tasks whose timer is armed and has not fired yet.
Armed == { r \in DOMAIN rt : rt[r].pc = "sleep" }

\* C11: at any time at most one reconnect timer is armed, under any
\* interleaving of failing connect() calls made by callers' operations and by
\* the reconnect tasks.
C11_AtMostOneTimerArmed == Cardinality(Armed) <= 1

\* C12: once destroy() has completed, no reconnect timer fires (no reconnect
\* task goes from its sleep into connect()) and no new timer is armed.
C12_NoReconnectAfterDestroy ==
    [][status = "destroyed"
       => /\ \A r \in DOMAIN rt : ~(rt[r].pc = "sleep" /\ rt'[r].pc = "ws")
          /\ Len(rt') = Len(rt)]_vars

\* ------------------------------------------------------------------------
\* Properties of the backoff (SpecBackoff)
\* ------------------------------------------------------------------------
\* The delays the example gives for initial_delay 100 ms, multiplier 2 and
\* max_delay 1 s.
SpecDelays == <<100, 200, 400, 800, 1000>>

ExpectedDelay(n) == IF n < Len(SpecDelays) THEN SpecDelays[n + 1] ELSE SpecDelays[5]

\* No connect attempt has succeeded so far.
AllFailed == \A i \in DOMAIN tstate : tstate[i].ssh = "none"

\* At most one connect() was made by a caller; every other one was made by a
\* reconnect task.
OneCallerConnect ==
    Len(tstate) - Cardinality({ r \in DOMAIN rt : rt[r].tr # 0 }) <= 1

NoConnectInFlight ==
    /\ \A t \in Callers : task[t].pc \notin {"ws", "ssh"}
    /\ \A r \in DOMAIN rt : rt[r].pc \notin {"ws", "ssh"}

\* C14: with max_retries = N > 0 and every connect attempt failing, the
\* number of reconnect attempts never exceeds N, and once N attempts have
\* failed and no timer is left the status is disconnected.
C14_RetriesBounded ==
    cfg.enabled /\ cfg.maxRetries > 0 /\ AllFailed
    => /\ retry <= cfg.maxRetries
       /\ retry >= cfg.maxRetries /\ NoConnectInFlight /\ Armed = {}
            => status = "disconnected"

\* ------------------------------------------------------------------------
\* Properties of a lost connection (SpecOps)
\* ------------------------------------------------------------------------
\* The caller's operation is waiting for a call on the backend's transport,
\* whose connection has been lost, and ends in this step.
FailsOnLostTransport ==
    /\ task[Caller].op \in FileOps
    /\ task[Caller].pc \in {"sftp", "io"}
    /\ task[Caller].tr = transport
    /\ tstate[transport].ssh = "lost"
    /\ task'[Caller].pc = "idle"

\* C15: when a transport call of an operation fails on a connected backend
\* because the connection was lost, the operation fails, the status goes from
\* connected to disconnected, and with reconnection enabled a reconnect is
\* armed (status reconnecting, a timer pending).
C15_TransportFailureDisconnects ==
    [][status = "connected" /\ FailsOnLostTransport
       => /\ last'.res \notin {"ok", "none"}
          /\ status' \in {"disconnected", "reconnecting"}
          /\ cfg.enabled => status' = "reconnecting" /\ Armed' # {}]_vars

\* ------------------------------------------------------------------------
\* Properties of destroy (SpecOwn)
\* ------------------------------------------------------------------------
\* C16: destroy() never raises, also when the close of a closeable or of the
\* transport raises; the status is destroyed when it returns; a destroy() on
\* a destroyed backend succeeds too and emits no event.
C16_DestroyAlwaysSucceeds ==
    [][last'.op = "destroy"
       => /\ last'.res = "ok"
          /\ status' = "destroyed"
          /\ status = "destroyed" => lastEvents' = <<>>]_vars

\* C19: a destroyed child is not in its parent's active set, and once the
\* parent is destroyed its active set is empty and every child made from it
\* has been marked destroyed.
C19_ChildrenBoundedByParent ==
    /\ activeScopes \cap destroyedScopes = {}
    /\ status = "destroyed"
         => activeScopes = {} /\ \A c \in 1..nextS : c \in destroyedScopes

\* ------------------------------------------------------------------------
\* Properties of the SFTP session (Spec)
\* ------------------------------------------------------------------------
\* C20: on every transport the SFTP sub-session is started at most once,
\* however the callers' get_sftp() calls overlap.
C20_OneSftpSession == \A T \in DOMAIN tstate : tstate[T].sessions <= 1

\* ------------------------------------------------------------------------
\* Properties of the observers (SpecObs)
\* ------------------------------------------------------------------------
\* The positions of the invocations of callback o in the log.
InvocationsOf(o) == { i \in DOMAIN received : received[i][1] = o }

\* The callbacks that subscribed and are no longer in the list.
Cleared == (1..observers.n) \ { observers.cbs[i] : i \in DOMAIN observers.cbs }

C18_ObserversInOrder ==
    [][LET n == Len(observers.cbs)
           m == Len(lastEvents')
           base == Len(received)
       IN /\ status' # status => m >= 1
          /\ m >= 1 =>
               /\ lastEvents'[1][1] = status
               /\ lastEvents'[m][2] = status'
               /\ \A k \in 1..(m - 1) : lastEvents'[k][2] = lastEvents'[k + 1][1]
          /\ Len(received') = base + n * m
          /\ \A i \in 1..base : received'[i] = received[i]
          /\ \A k \in 1..m : \A j \in 1..n :
               received'[base + (k - 1) * n + j]
                 = <<observers.cbs[j], lastEvents'[k][1], lastEvents'[k][2]>>
          /\ \A j \in (base + 1)..Len(received') : \A i \in 1..(j - 1) :
               /\ received'[i][1] = received'[j][1]
               /\ \A x \in (i + 1)..(j - 1) : received'[x][1] # received'[i][1]
               => received'[i][3] = received'[j][2]
      ]_vars

\* C18 witness: a failed connect() has just emitted two events and both
\* callbacks received them, the first event before the second, callback 1
\* before callback 2.
C18_TwoEventsTwoObservers ==
    /\ lastEvents = << <<"connecting", "disconnected">>,
                       <<"disconnected", "reconnecting">> >>
    /\ Len(received) >= 4
    /\ SubSeq(received, Len(received) - 3, Len(received))
         = << <<1, "connecting", "disconnected">>, <<2, "connecting", "disconnected">>,
              <<1, "disconnected", "reconnecting">>,
              <<2, "disconnected", "reconnecting">> >>

\* ------------------------------------------------------------------------
\* Properties of the transports a backend creates (Spec)
\* ------------------------------------------------------------------------
\* A transport whose WebSocket or SSH connection is open.
IsOpen(T) == tstate[T].ws = "open" \/ tstate[T].ssh = "open"

\* C21: whenever connect() installs a new transport, no transport the
\* backend created before is still open.
C21_AtMostOneActiveTransport ==
    [][transport' # transport /\ transport' # 0
         => \A T \in DOMAIN tstate : ~IsOpen(T)]_vars

\* ------------------------------------------------------------------------
\* Properties of the SFTP calls of write and mkdir (SpecPath)
\* ------------------------------------------------------------------------
\* The arguments of the makedirs calls among the calls cs.
MakedirsArgs(cs) == { cs[i].a : i \in { j \in DOMAIN cs : cs[j].fn = "makedirs" } }

\* A path relative to the root that stays in it: not absolute, not empty, no
\* ".." component.
RelativeInRoot(p) ==
    /\ p # <<>>
    /\ ~IsAbs(p)
    /\ \A i \in 1..Len(Split(p)) : Split(p)[i] # DOTDOT

\* The caller's path p in its relative form or its absolute form under the
\* root.
Given(p) == vin.path = p \/ vin.path = vin.root \o <<SEP>> \o p

\* C22: every path write or recursive mkdir passes to makedirs is relative,
\* never absolute and never with a ".." component; under '/var/workspace',
\* write('sub/file.txt') calls makedirs('sub'), write('a/b/c/file.txt') calls
\* makedirs('a/b/c') and recursive mkdir('sub/dir') calls makedirs('sub/dir').
C22_MakedirsRelative ==
    /\ vout.kind \in {"write", "mkdir-recursive"}
       => \A p \in MakedirsArgs(vout.res) : RelativeInRoot(p)
    /\ vin.root = RootVarWorkspace =>
         /\ vout.kind = "write" /\ Given(PathSub)
            => MakedirsArgs(vout.res) = {<<"sub">>}
         /\ vout.kind = "write" /\ Given(PathNested)
            => MakedirsArgs(vout.res) = {<<"a", SEP, "b", SEP, "c">>}
         /\ vout.kind = "mkdir-recursive" /\ Given(PathDir)
            => MakedirsArgs(vout.res) = {PathDir}

\* The validated path of the write under way.
WriteTarget == ValidateWithinBoundary(vin.path, vin.root, TRUE)

\* C23: a write whose path validates makes at most one makedirs call, exactly
\* when the parent directory of the validated path is not the root; the
\* makedirs call comes first, the open is the last call and is given the
\* absolute validated path ('/var/workspace/test.txt' for 'test.txt', with no
\* makedirs).
C23_MakedirsOnlyBelowRoot ==
    vout.kind = "write" /\ WriteTarget # ESCAPE =>
        /\ Len(vout.res) \in {1, 2}
        /\ vout.res[Len(vout.res)] = Call("open", WriteTarget, <<>>)
        /\ IsAbs(WriteTarget)
        /\ Len(vout.res) = 2 <=> Dirname(WriteTarget) # vin.root
        /\ Len(vout.res) = 2 => vout.res[1].fn = "makedirs"
        /\ vin.root = RootVarWorkspace /\ Given(PathFile)
           => vout.res = <<Call("open", RootVarWorkspace \o <<SEP>> \o PathFile, <<>>)>>

\* C23 witness: write('a/b/c/file.txt') under '/var/workspace' has called
\* makedirs('a/b/c') and then opened '/var/workspace/a/b/c/file.txt'.
C23_NestedWrite ==
    /\ vout.kind = "write"
    /\ vin.root = RootVarWorkspace
    /\ vin.path = PathNested
    /\ vout.res = <<Call("makedirs", <<"a", SEP, "b", SEP, "c">>, <<>>),
                    Call("open", RootVarWorkspace \o <<SEP>> \o PathNested, <<>>)>>

\* ------------------------------------------------------------------------
\* Properties of exec (SpecOps)
\* ------------------------------------------------------------------------
\* The strings ss joined by single blanks.
RECURSIVE JoinBlank(_)
JoinBlank(ss) ==
    IF Len(ss) = 0 THEN <<>>
    ELSE IF Len(ss) = 1 THEN ss[1]
    ELSE ss[1] \o <<BLANK>> \o JoinBlank(Tail(ss))

\* The K=V assignments of env, in the caller's order.
Assignments(env) == [i \in 1..Len(env) |-> env[i][1] \o <<"=">> \o env[i][2]]

\* 'cd <cwd> && HOME=<cwd> <env assignments> <cmd>'
ExpectedLine(a, root) ==
    LET cwd == IF a.cwd = <<>> THEN root ELSE a.cwd
    IN <<"cd", BLANK>> \o cwd \o <<BLANK, "&&", BLANK, "HOME", "=">> \o cwd \o <<BLANK>>
       \o (IF a.env = <<>> THEN <<>> ELSE JoinBlank(Assignments(a.env)) \o <<BLANK>>)
       \o a.cmd

\* C24: exec passes at most one line to transport.run, exactly one when it
\* returns or fails with the command's exit code; the line is
\* 'cd <cwd> && HOME=<cwd> ' followed by the K=V pairs joined by single blanks
\* in the caller's order and the caller's command unchanged, <cwd> being
\* options.cwd if given and root_dir otherwise; exec('echo hello') under
\* '/var/workspace' sends a line that begins with
\* 'cd /var/workspace && HOME=/var/workspace '.
C24_ExecShellLine ==
    Current.op = "exec" =>
        LET lines == { Current.calls[j].a :
                         j \in { k \in DOMAIN Current.calls : Current.calls[k].fn = "run" } }
            n == Cardinality({ k \in DOMAIN Current.calls : Current.calls[k].fn = "run" })
        IN /\ n <= 1
           /\ Current.res \in {"ok", "exec-failed"} => n = 1
           /\ \A l \in lines : l = ExpectedLine(Current.arg, cfg.root)
           /\ cfg = TestConfig /\ Current.arg = [NoArg EXCEPT !.cmd = CmdEcho]
              => \A l \in lines :
                   /\ StartsWith(l, <<"cd", BLANK>> \o RootVarWorkspace
                                    \o <<BLANK, "&&", BLANK, "HOME", "=">>
                                    \o RootVarWorkspace \o <<BLANK>>)
                   /\ l = <<"cd", BLANK>> \o RootVarWorkspace
                          \o <<BLANK, "&&", BLANK, "HOME", "=">>
                          \o RootVarWorkspace \o <<BLANK>> \o CmdEcho

\* C24 witness: exec of a padded command with two variables returned after
\* sending 'cd /ws && HOME=/ws B=2 A=1  echo hello '.
C24_TwoVariablesSent ==
    /\ last.op = "exec"
    /\ last.res = "ok"
    /\ last.arg.env = EnvTwo
    /\ \E j \in DOMAIN last.calls :
         /\ last.calls[j].fn = "run"
         /\ last.calls[j].a = <<"cd", BLANK>> \o RootWs
                \o <<BLANK, "&&", BLANK, "HOME", "=">> \o RootWs
                \o <<BLANK, "B", "=", "2", BLANK, "A", "=", "1", BLANK, BLANK,
                     "echo", BLANK, "hello", BLANK>>

\* ------------------------------------------------------------------------
\* Properties of exec's output (SpecExec)
\* ------------------------------------------------------------------------
\* The trimmed stdout of the exec that returned.
Trimmed == Strip(vin.stdout)

\* What the claim says of the limits from lo on.
TruncationFrom(lo) ==
    vout.kind = "exec" /\ vin.max >= lo =>
        IF Len(Trimmed) > vin.max
        THEN /\ vout.res.truncated
             /\ Len(vout.res.text) = vin.max - 50
             /\ vout.res.text = SubSeq(Trimmed, 1, vin.max - 50)
             /\ vout.res.full = Len(Trimmed)
             /\ vout.res.shown = vin.max - 50
        ELSE ~vout.res.truncated /\ vout.res.text = Trimmed

\* C25: for every non-zero max_output_length L, from 1 on, a trimmed stdout
\* longer than L is returned as its first L - 50 characters followed by a
\* notice that states the original length and the shown length L - 50; a
\* trimmed stdout of at most L characters is returned unchanged.
C25_TruncatedToLimit == TruncationFrom(1)

\* ------------------------------------------------------------------------
\* Properties of the adapter (SpecAdapter)
\* ------------------------------------------------------------------------
\* The names of the calls made by the adapter call that ended in this state.
LastCalled == { last.calls[i].fn : i \in DOMAIN last.calls }

\* C26: an adapter.get_mcp_client() that returns has opened the transport
\* context, entered the session and completed initialize(), in this order, and
\* the backend tracks the returned session as a closeable when the call
\* returns; one that ends in a timeout returns and tracks no session: the
\* closeables are what they were before the timeout expired.
C26_ClientInitializedAndTracked ==
    [][/\ last'.op = AdapterOp /\ last'.res = "ok" =>
            \E k \in DOMAIN last'.calls :
              /\ k = Len(last'.calls) /\ k >= 5
              /\ last'.calls[k].fn = "track_closeable"
              /\ last'.calls[k].a[1] \in closeables'
              /\ last'.calls[k].a[1] \notin closeables
              /\ last'.calls[k - 1].fn = "initialize"
              /\ last'.calls[k - 2].fn = "enter"
              /\ last'.calls[k - 3].fn = "open"
       /\ last'.op = AdapterOp /\ last'.res = "timeout" =>
            /\ closeables' = closeables
            /\ \A i \in DOMAIN last'.calls : last'.calls[i].fn # "track_closeable"
      ]_vars

\* C26 witness: one caller's get_mcp_client has timed out during initialize()
\* after the other caller's returned a tracked session.
C26_TimeoutAfterSuccess ==
    /\ last.op = AdapterOp
    /\ last.res = "timeout"
    /\ "enter" \in LastCalled
    /\ "initialize" \notin LastCalled
    /\ Cardinality(closeables) = 3

\* ------------------------------------------------------------------------
\* Properties of the reassembly of a stream (SpecStream)
\* ------------------------------------------------------------------------
\* The tool-call deltas of index i, in arrival order.
DeltasOf(i) == SelectSeq(vin.tools, LAMBDA d : d.index = i)

RECURSIVE ConcatArgs(_)
ConcatArgs(ds) == IF ds = <<>> THEN <<>> ELSE Head(ds).arguments \o ConcatArgs(Tail(ds))

\* The non-empty ids / names the deltas ds carry.
IdsOf(ds) == { ds[k].id : k \in DOMAIN ds } \ {""}

NamesOf(ds) == { ds[k].name : k \in DOMAIN ds } \ {""}

\* The index whose deltas made the k-th tool call of the message.
IndexAt(k) ==
    CHOOSE i \in { vin.tools[j].index : j \in DOMAIN vin.tools } :
       Cardinality({ vin.tools[j].index : j \in DOMAIN vin.tools } \cap 0..(i - 1)) = k - 1

\* C28: the assistant message has one tool call per index that occurs in the
\* stream, in ascending order of the indices; the tool call of index i has an
\* id and a name its deltas carry (none when they carry none) and as arguments
\* the concatenation, in arrival order, of the fragments of the deltas of
\* index i.
C28_ReassembledPerIndex ==
    vout.kind = "assistant" =>
        LET indices == { vin.tools[j].index : j \in DOMAIN vin.tools }
            tcs == vout.res.tool_calls
        IN /\ Len(tcs) = Cardinality(indices)
           /\ \A k \in DOMAIN tcs :
                /\ IndexAt(k) \in indices
                /\ \A l \in DOMAIN tcs : k < l => IndexAt(k) < IndexAt(l)
                /\ tcs[k].arguments = ConcatArgs(DeltasOf(IndexAt(k)))
                /\ IF IdsOf(DeltasOf(IndexAt(k))) = {} THEN tcs[k].id = ""
                   ELSE tcs[k].id \in IdsOf(DeltasOf(IndexAt(k)))
                /\ IF NamesOf(DeltasOf(IndexAt(k))) = {} THEN tcs[k].name = ""
                   ELSE tcs[k].name \in NamesOf(DeltasOf(IndexAt(k)))

\* C28 witness: the deltas of index 1 arrived before index 0 was complete, and
\* the message lists index 0 (id x, arguments '12') before index 1.
C28_OutOfOrderIndices ==
    /\ vout.kind = "assistant"
    /\ vin.tools = <<ToolDelta(0, "x", "f", <<>>), ToolDelta(0, "", "", <<"1">>),
                     ToolDelta(1, "y", "g", <<>>)>>
                   \/ vin.tools = <<ToolDelta(1, "y", "g", <<>>), ToolDelta(0, "x", "f", <<>>),
                                    ToolDelta(0, "", "", <<"1">>)>>
    /\ vin.tools[1].index = 1
    /\ Len(vout.res.tool_calls) = 2
    /\ vout.res.tool_calls[1] = [id |-> "x", type |-> "function", name |-> "f",
                                 arguments |-> <<"1">>]
    /\ vout.res.tool_calls[2].id = "y"

\* C30: the assistant message depends on the text deltas in their order and
\* the tool-call deltas in their order only, not on how the two interleave:
\* it is the message of the stream that delivers all the text first and then
\* all the tool-call deltas.
C30_InterleavingIrrelevant ==
    vout.kind = "assistant" =>
        vout.res = Reassembled(
            [k \in 1..Len(vin.text) |-> [content |-> vin.text[k], tool_calls |-> <<>>]]
            \o [k \in 1..Len(vin.tools) |->
                  [content |-> <<>>, tool_calls |-> <<vin.tools[k]>>]])

\* C30 witness: text and tool-call deltas arrived alternately, the first
\* text delta after a tool-call delta, and both accumulators are complete.
C30_Alternating ==
    /\ vout.kind = "assistant"
    /\ vin.weave = <<"t", "c", "t", "c">>
    /\ vout.res.content = vin.text[1] \o vin.text[2]
    /\ vout.res.tool_calls # <<>>

\* ------------------------------------------------------------------------
\* Properties of the chat loop (SpecChat, SpecChatLive)
\* ------------------------------------------------------------------------
\* A turn is under way.
InTurn == vout.pc \in {"streaming", "calling"}

\* C27: a turn never opens more than 15 completions; when the prompt comes
\* back, the completions opened in the turn are as many as the position of the
\* first completion without tool calls, and 15 when that position is beyond 15
\* (a model that asks for a tool in every completion); and every turn ends.
C27_InnerLoopBounded ==
    /\ [](vout.step <= 15)
    /\ [][InTurn /\ vout'.pc = "prompt"
            => vout'.step = (IF vin.first < 15 THEN vin.first ELSE 15)]_vars
    /\ (InTurn ~> ~InTurn)

\* C27 witness: the model asked for a tool in every completion; the prompt is
\* back after 15 completions, the last message being the tool message of the
\* fifteenth.
C27_FifteenCompletions ==
    /\ vout.pc = "prompt"
    /\ vout.turns = 1
    /\ vin.first > 15
    /\ vout.step = 15
    /\ Cardinality({ i \in DOMAIN vout.messages : vout.messages[i].role = "assistant" }) = 15
    /\ vout.messages[Len(vout.messages)].role = "tool"

\* The position of the last assistant message of the history c.messages.
LastAssistant(c) ==
    CHOOSE i \in DOMAIN c.messages :
       /\ c.messages[i].role = "assistant"
       /\ \A j \in DOMAIN c.messages : j > i => c.messages[j].role # "assistant"

\* The history of c ends with the assistant message that lists the tool calls
\* c.list, followed by the tool messages of the first n of them, in the
\* list's order and with their ids.
AnsweredUpTo(c, n) ==
    /\ \E i \in DOMAIN c.messages : c.messages[i].role = "assistant"
    /\ c.messages[LastAssistant(c)].tool_calls = c.list
    /\ Len(c.messages) = LastAssistant(c) + n
    /\ \A j \in 1..n :
         /\ c.messages[LastAssistant(c) + j].role = "tool"
         /\ c.messages[LastAssistant(c) + j].tool_call_id = c.list[j].id

\* C29: the tool calls of an assistant message are dispatched one at a time
\* in the order of its tool_calls list: when call k is invoked the history
\* ends with the tool messages of calls 1..k-1, in that order and with their
\* ids, and the next completion of the turn is opened only when the tool
\* messages of all the calls are there.
C29_SequentialDispatch ==
    [][/\ vout'.pc = "calling" => AnsweredUpTo(vout', vout'.k - 1)
       /\ vout.pc = "calling" /\ vout'.pc = "calling" => vout'.k = vout.k + 1
       /\ vout.pc \in {"streaming", "calling"} /\ vout'.pc = "streaming"
            => vout.pc = "calling" /\ AnsweredUpTo(vout', Len(vout'.list))
      ]_vars

\* C29 witness: of two tool calls listed as <<x, y>> the first has been
\* answered and the second is being called.
C29_SecondCallAfterFirstAnswer ==
    /\ vout.pc = "calling"
    /\ vout.k = 2
    /\ Len(vout.list) = 2
    /\ vout.list[1].id = "x" /\ vout.list[2].id = "y"
    /\ vout.messages[Len(vout.messages)].role = "tool"
    /\ vout.messages[Len(vout.messages)].tool_call_id = "x"

\* ------------------------------------------------------------------------
\* An operation awaiting its transport: the timers of the event loop run,
\* the transport answers when it answers
\* ------------------------------------------------------------------------
\* One caller issues one file or exec operation, again and again.  The only
\* timers the backend ever arms are the reconnect sleeps: __init__ stores
\* operation_timeout_ms and nothing reads it.
AwaitInputs ==
    { <<"read", [NoArg EXCEPT !.p = PathSub]>>,
      <<"write", [NoArg EXCEPT !.p = PathSub]>>,
      <<"exec", [NoArg EXCEPT !.cmd = CmdEcho]>> }

InitAwait ==
    /\ cfg \in LifeConfigs
    /\ InitBackend
    /\ recording = TRUE
    /\ vin = NoPath
    /\ vout = NoOut
    /\ opin \in { [op |-> i[1], arg |-> i[2], scope |-> <<>>] : i \in AwaitInputs }
    /\ maxT = MaxTransports

NextAwait ==
    \/ BeginOp(Caller, opin.op, opin.arg)
    \/ WsOpen(Caller)
    \/ WsFail(Caller)
    \/ SshOk(Caller)
    \/ SshFail(Caller)
    \/ \E r \in 1..MaxTransports : TimerFire(r)
    \/ \E r \in 1..MaxTransports : RWsOpen(r)
    \/ \E r \in 1..MaxTransports : RWsFail(r)
    \/ \E r \in 1..MaxTransports : RSshOk(r)
    \/ \E r \in 1..MaxTransports : RSshFail(r)
    \/ SftpStarted(Caller)
    \/ SftpFail(Caller)
    \/ IoOk(Caller)
    \/ \E how \in {"raise", "nonzero"} : IoFail(Caller, how)

\* A sleep that is over wakes its task; nothing makes the remote side answer.
SpecAwait ==
    /\ InitAwait
    /\ [][NextAwait]_vars
    /\ \A r \in 1..MaxTransports : WF_vars(TimerFire(r))

\* The caller's operation is waiting for a call on the transport to return.
Awaiting == task[Caller].pc \in {"sftp", "io"}

\* C31: an operation that waits for its transport call does not wait forever:
\* it returns or fails, whether or not the transport ever answers.
C31_OperationEnds == Awaiting ~> ~Awaiting

\* ------------------------------------------------------------------------
\* WebSocketSSHTransport on its own: connect, get_sftp, run, close
\* ------------------------------------------------------------------------
\* The transport object is kept in vout: _ws, _ssh_conn and _sftp are "none"
\* (None), "open", or "closing" (set, close() called on the object);
\* begun counts the close() calls entered and log lists the close calls made
\* on the three objects so far; settled says that a close() has returned
\* with no connect() under way and that none was entered since.
NewTransport ==
    [kind |-> "transport", ws |-> "none", ssh |-> "none", sftp |-> "none",
     connected |-> FALSE, dialled |-> FALSE, begun |-> 0, log |-> <<>>,
     settled |-> FALSE]

TransportOp(o) == [NewTask(o, NoArg) EXCEPT !.calls = <<>>]

TransportUnchanged ==
    /\ NoEvents
    /\ UNCHANGED <<cfg, backendVars, vin, recording, opin, maxT>>

\* connect() up to the await of websockets.connect.
TConnect(t) ==
    /\ Free(t)
    /\ ~vout.dialled
    /\ vout' = [vout EXCEPT !.dialled = TRUE, !.settled = FALSE]
    /\ Settle(t, [TransportOp("transport.connect") EXCEPT !.pc = "t.dial"])
    /\ TransportUnchanged

\* websockets.connect returned: self._ws is set; asyncssh.connect is awaited.
TWsOpen(t) ==
    /\ task[t].pc = "t.dial"
    /\ vout' = [vout EXCEPT !.ws = "open"]
    /\ Settle(t, [task[t] EXCEPT !.pc = "t.ssh"])
    /\ TransportUnchanged

\* asyncssh.connect returned over the open WebSocket: _ssh_conn is set and
\* _connected = True.
TSshOk(t) ==
    /\ task[t].pc = "t.ssh"
    /\ vout.ws = "open"
    /\ vout' = [vout EXCEPT !.ssh = "open", !.connected = TRUE]
    /\ Settle(t, Done(task[t], "ok"))
    /\ TransportUnchanged

\* websockets.connect or asyncssh.connect raised.
TConnectFail(t) ==
    /\ task[t].pc \in {"t.dial", "t.ssh"}
    /\ UNCHANGED vout
    /\ Settle(t, Done(task[t], "ConnectError"))
    /\ TransportUnchanged

\* get_sftp() up to its await: the cached session, ConnectionError without an
\* SSH connection, or start_sftp_client().
TGetSftp(t) ==
    /\ Free(t)
    /\ UNCHANGED vout
    /\ LET tk == TransportOp("transport.get_sftp")
       IN Settle(t, IF vout.sftp # "none" THEN Done(tk, "sftp")
                     ELSE IF vout.ssh = "none" THEN Done(tk, "ConnectionError")
                     ELSE [tk EXCEPT !.pc = "t.start_sftp",
                                     !.calls = <<Call("start_sftp_client", vout.ssh, <<>>)>>])
    /\ TransportUnchanged

\* start_sftp_client returned (the connection is open): the session is cached.
TSftpStarted(t) ==
    /\ task[t].pc = "t.start_sftp"
    /\ vout.ssh = "open"
    /\ vout' = [vout EXCEPT !.sftp = "open"]
    /\ Settle(t, Done(task[t], "sftp"))
    /\ TransportUnchanged

\* run(command) up to its await: ConnectionError without an SSH connection,
\* else _ssh_conn.run.
TRun(t) ==
    /\ Free(t)
    /\ UNCHANGED vout
    /\ LET tk == TransportOp("transport.run")
       IN Settle(t, IF vout.ssh = "none" THEN Done(tk, "ConnectionError")
                     ELSE [tk EXCEPT !.pc = "t.run",
                                     !.calls = <<Call("run", vout.ssh, <<>>)>>])
    /\ TransportUnchanged

\* _ssh_conn.run returned (the connection is open).
TRunOk(t) ==
    /\ task[t].pc = "t.run"
    /\ vout.ssh = "open"
    /\ UNCHANGED vout
    /\ Settle(t, Done(task[t], "ok"))
    /\ TransportUnchanged

\* start_sftp_client or _ssh_conn.run raised.
TCallFail(t) ==
    /\ task[t].pc \in {"t.start_sftp", "t.run"}
    /\ UNCHANGED vout
    /\ Settle(t, Done(task[t], "SshError"))
    /\ TransportUnchanged

\* close() has returned in the coroutine tk, leaving the transport tr.
CloseReturn(t, tk, tr) ==
    /\ vout' = [tr EXCEPT !.settled = @ \/ (\A u \in Callers \ {t} :
                                              task[u].pc \notin {"t.dial", "t.ssh"})]
    /\ Settle(t, Done(tk, "ok"))

\* close() from `if self._ws:` on.
CloseWs(t, tk, tr) ==
    IF tr.ws # "none"
    THEN /\ vout' = [tr EXCEPT !.ws = "closing",
                              !.log = Append(@, Call("ws.close", <<>>, <<>>))]
         /\ Settle(t, [tk EXCEPT !.pc = "t.ws_close",
                                  !.calls = Append(@, Call("ws.close", <<>>, <<>>))])
    ELSE CloseReturn(t, tk, tr)

\* close() up to its first await: _connected = False; the SFTP session, if
\* any, exits and is dropped; the SSH connection, if any, is closed and
\* waited for.
TClose(t) ==
    /\ Free(t)
    /\ vout.begun < MaxCloses
    /\ LET tk0 == TransportOp("transport.close")
           tk1 == IF vout.sftp # "none"
                  THEN [tk0 EXCEPT !.calls = <<Call("sftp.exit", <<>>, <<>>)>>]
                  ELSE tk0
           tr1 == [vout EXCEPT !.connected = FALSE, !.begun = @ + 1, !.sftp = "none",
                               !.log = @ \o tk1.calls]
       IN IF tr1.ssh # "none"
          THEN /\ vout' = [tr1 EXCEPT !.ssh = "closing",
                                      !.log = Append(@, Call("ssh.close", <<>>, <<>>))]
               /\ Settle(t, [tk1 EXCEPT !.pc = "t.wait_closed",
                                        !.calls = Append(@, Call("ssh.close", <<>>, <<>>))])
          ELSE CloseWs(t, tk1, tr1)
    /\ TransportUnchanged

\* wait_closed() returned and the connection object is kept.
TSshClosedKeepsConn(t) ==
    /\ task[t].pc = "t.wait_closed"
    /\ CloseWs(t, task[t], vout)
    /\ TransportUnchanged

\* wait_closed() returned: self._ssh_conn = None, then the WebSocket.
TSshClosed(t) ==
    /\ task[t].pc = "t.wait_closed"
    /\ CloseWs(t, task[t], [vout EXCEPT !.ssh = "none"])
    /\ TransportUnchanged

\* The WebSocket's close() returned: self._ws = None; close() returns.
TWsClosed(t) ==
    /\ task[t].pc = "t.ws_close"
    /\ CloseReturn(t, task[t], [vout EXCEPT !.ws = "none"])
    /\ TransportUnchanged

\* The awaited wait_closed() or WebSocket close() raised: close() raises and
\* the fields stay as they are.
TCloseFail(t) ==
    /\ task[t].pc \in {"t.wait_closed", "t.ws_close"}
    /\ UNCHANGED vout
    /\ Settle(t, Done(task[t], "TransportError"))
    /\ TransportUnchanged

InitTransport ==
    /\ cfg = TestConfig
    /\ InitBackend
    /\ recording = TRUE
    /\ vin = NoPath
    /\ vout = NewTransport
    /\ opin = NoOp
    /\ maxT = MaxTransports

NextTransport ==
    \/ \E t \in Callers : TConnect(t)
    \/ \E t \in Callers : TWsOpen(t)
    \/ \E t \in Callers : TSshOk(t)
    \/ \E t \in Callers : TConnectFail(t)
    \/ \E t \in Callers : TGetSftp(t)
    \/ \E t \in Callers : TSftpStarted(t)
    \/ \E t \in Callers : TRun(t)
    \/ \E t \in Callers : TRunOk(t)
    \/ \E t \in Callers : TCallFail(t)
    \/ \E t \in Callers : TClose(t)
    \/ \E t \in Callers : TSshClosed(t)
    \/ \E t \in Callers : TWsClosed(t)
    \/ \E t \in Callers : TCloseFail(t)

SpecTransport == InitTransport /\ [][NextTransport]_vars

\* ------------------------------------------------------------------------
\* Properties of the transport (SpecTransport)
\* ------------------------------------------------------------------------
\* The place of a close call in the order SFTP, SSH, WebSocket.
CloseRank(c) ==
    CASE c.fn = "sftp.exit" -> 1
      [] c.fn = "ssh.close" -> 2
      [] c.fn = "ws.close" -> 3

InCloseOrder(calls) ==
    \A i, j \in DOMAIN calls : i < j => CloseRank(calls[i]) < CloseRank(calls[j])

\* A call entered and finished within the step, with no await.
Immediate(o) == last'.op = o /\ task' = task

\* C32: the close calls of one close() are made in the order SFTP session,
\* SSH connection, WebSocket; once a close() has returned (no connect() under
\* way or entered since) the transport reports connected = false and holds no
\* session, connection or WebSocket, a further close() returns without a
\* close call, and run() and get_sftp() raise ConnectionError without
\* touching a connection.
C32_CloseOrderedIdempotent ==
    /\ [](/\ \A t \in Callers :
                task[t].op = "transport.close" => InCloseOrder(task[t].calls)
          /\ last.op = "transport.close" => InCloseOrder(last.calls)
          /\ vout.settled
               => /\ ~vout.connected
                  /\ vout.ws = "none" /\ vout.ssh = "none" /\ vout.sftp = "none")
    /\ [][vout.settled
            => /\ vout'.begun # vout.begun
                    => /\ Immediate("transport.close")
                       /\ last'.res = "ok"
                       /\ last'.calls = <<>>
               /\ vout'.log = vout.log
               /\ last'.op \in {"transport.run", "transport.get_sftp"} /\ task' = task
                    => /\ last'.res = "ConnectionError"
                       /\ last'.calls = <<>>]_vars

\* C32 witness: a connected transport with an SFTP session was closed by the
\* three calls in order, and a second close() has returned without a call.
C32_SecondCloseAfterFullClose ==
    /\ vout.settled
    /\ vout.begun = 2
    /\ vout.log = <<Call("sftp.exit", <<>>, <<>>), Call("ssh.close", <<>>, <<>>),
                    Call("ws.close", <<>>, <<>>)>>
    /\ last.op = "transport.close"
    /\ last.res = "ok"
    /\ last.calls = <<>>

\* ------------------------------------------------------------------------
\* _WebSocketTransport: the read loop of the tunnel
\* ------------------------------------------------------------------------
\* A WebSocket message is binary or text; data_received always gets bytes.
WsMessages == { [type |-> ty, data |-> d] : ty \in {"bytes", "str"}, d \in {"m", "n"} }

Encode(m) == IF m.type = "bytes" THEN m ELSE [type |-> "bytes", data |-> m.data]

\* The loop after start_reading: delivered lists the data_received calls and
\* lost the connection_lost calls made on the protocol; cause says how the
\* iteration over the WebSocket ended.
NewTunnel ==
    [kind |-> "tunnel", pc |-> "reading", closing |-> FALSE, delivered |-> <<>>,
     lost |-> <<>>, cause |-> "none"]

TunnelUnchanged ==
    /\ NoEvents
    /\ UNCHANGED <<cfg, backendVars, task, last, vin, recording, opin, maxT>>

\* A message arrived: protocol.data_received(message or message.encode()).
ReadMessage(m) ==
    /\ vout.pc = "reading"
    /\ Len(vout.delivered) < MaxMessages
    /\ vout' = [vout EXCEPT !.delivered = Append(@, Encode(m))]
    /\ TunnelUnchanged

\* The WebSocket closed with code 1000 or 1001 or without a code: the
\* iteration `async for message in self._ws` ends, and with it the coroutine.
ReadClosedOK ==
    /\ vout.pc = "reading"
    /\ vout' = [vout EXCEPT !.pc = "ended", !.cause = "clean"]
    /\ TunnelUnchanged

\* The WebSocket failed or closed with another code: the iteration raises
\* ConnectionClosedError, a ConnectionClosed: protocol.connection_lost(None).
ReadClosedError ==
    /\ vout.pc = "reading"
    /\ vout' = [vout EXCEPT !.pc = "ended", !.cause = "error",
                            !.lost = Append(@, "None")]
    /\ TunnelUnchanged

\* data_received (or the iteration) raised another Exception exc:
\* protocol.connection_lost(exc).
ReadRaised ==
    /\ vout.pc = "reading"
    /\ vout' = [vout EXCEPT !.pc = "ended", !.cause = "exception",
                            !.lost = Append(@, "exc")]
    /\ TunnelUnchanged

\* close() / abort() of the tunnel transport: _closing is set and the read
\* task cancelled; CancelledError ends the loop silently.
TunnelClose ==
    /\ ~vout.closing
    /\ vout' = [vout EXCEPT !.closing = TRUE,
                            !.pc = IF @ = "reading" THEN "cancelled" ELSE @]
    /\ TunnelUnchanged

InitTunnel ==
    /\ cfg = TestConfig
    /\ InitBackend
    /\ recording = FALSE
    /\ vin = NoPath
    /\ vout = NewTunnel
    /\ opin = NoOp
    /\ maxT = MaxTransports

NextTunnel ==
    \/ \E m \in WsMessages : ReadMessage(m)
    \/ ReadClosedOK
    \/ ReadClosedError
    \/ ReadRaised
    \/ TunnelClose

SpecTunnel == InitTunnel /\ [][NextTunnel]_vars

\* C33: when the read loop has ended because the WebSocket closed, the
\* protocol has been told exactly once: connection_lost(None) for a clean
\* close, connection_lost(the exception) for a failure.
C33_CloseNotified ==
    /\ vout.cause = "clean" => vout.lost = <<"None">>
    /\ vout.cause = "error" => vout.lost = <<"ConnectionClosedError">>

\* ------------------------------------------------------------------------
\* The retry counter: connect() and operations by a caller, the timers, and
\* a callback that has watched the status from the start
\* ------------------------------------------------------------------------
NextRetry ==
    \/ Len(tstate) = 0 /\ Subscribe(Caller)
    \/ Connect(Caller)
    \/ BeginOp(Caller, "exec", [NoArg EXCEPT !.cmd = CmdEcho])
    \/ WsOpen(Caller)
    \/ WsFail(Caller)
    \/ SshOk(Caller)
    \/ IoOk(Caller)
    \/ \E how \in {"raise", "nonzero"} : IoFail(Caller, how)
    \/ \E r \in 1..MaxAttempts : TimerFire(r)
    \/ \E r \in 1..MaxAttempts : RWsOpen(r)
    \/ \E r \in 1..MaxAttempts : RWsFail(r)
    \/ \E r \in 1..MaxAttempts : RSshOk(r)

SpecRetry == InitBackoff /\ [][NextRetry]_vars

\* The statuses the first callback was told of, in order.
RECURSIVE Told(_)
Told(rc) ==
    IF rc = <<>> THEN <<>>
    ELSE (IF Head(rc)[1] = 1 THEN <<Head(rc)[3]>> ELSE <<>>) \o Told(Tail(rc))

\* How many of the first i statuses of h are st.
Count(h, i, st) == Cardinality({ j \in 1..i : h[j] = st })

\* Status i of h is the first "reconnecting" after a "connected".
FirstAfterConnected(h, i) ==
    /\ h[i] = "reconnecting"
    /\ \E j \in 1..(i - 1) :
         /\ h[j] = "connected"
         /\ \A l \in (j + 1)..(i - 1) : h[l] # "reconnecting"

\* A reconnect timer fires in the step.
Fires == \E r \in DOMAIN rt : rt[r].pc = "sleep" /\ rt'[r].pc = "ws"

\* The caller's coroutine enters connect() in the step.
CallerConnects == task[Caller].pc = "idle" /\ task'[Caller].pc = "ws"

\* C34: the retry counter goes up by one with every firing of a reconnect
\* timer and with nothing else, in particular not with a connect() entered
\* for a caller; a connect that succeeds sets it to 0; and the first
\* reconnect scheduled after the status was connected sleeps initial_delay_ms.
C34_RetryCounter ==
    /\ [][/\ Fires => retry' = retry + 1
          /\ retry' > retry => Fires
          /\ CallerConnects => retry' = retry
          /\ status # "connected" /\ status' = "connected" => retry' = 0]_vars
    /\ [](observers.n > 0
            => \A i \in DOMAIN Told(received) :
                 FirstAfterConnected(Told(received), i)
                   => rt[Count(Told(received), i, "reconnecting")].delay
                        = cfg.initialDelay)

\* The backend's transport is connected.
Working == transport # 0 /\ tstate[transport].ssh = "open"

\* C35: while the status is connected no reconnect task is sleeping, and a
\* timer that fires never finds, and replaces, a connected transport.
C35_NoReconnectWhileConnected ==
    /\ [](status = "connected" => \A r \in DOMAIN rt : rt[r].pc # "sleep")
    /\ [][Fires => ~(status = "connected" /\ Working)]_vars

\* ------------------------------------------------------------------------
\* Reconnection when the remote side comes back: the first MaxFailures
\* connect attempts may fail, every later one succeeds
\* ------------------------------------------------------------------------
\* The attempt on transport T may still fail.
MayFail(T) == T <= MaxFailures

TimerMayFail(r) == r \in DOMAIN rt /\ MayFail(rt[r].tr)

InitReconnect ==
    /\ cfg = Config(RootWs, Policy(TRUE, 0), TRUE)
    /\ InitBackend
    /\ recording = FALSE
    /\ vin = NoPath
    /\ vout = NoOut
    /\ opin = NoOp
    /\ maxT = 2 * MaxFailures

\* The caller calls connect() only while attempts may fail; afterwards the
\* timers are on their own.
NextReconnect ==
    \/ Len(tstate) < MaxFailures /\ Connect(Caller)
    \/ WsOpen(Caller)
    \/ MayFail(task[Caller].tr) /\ WsFail(Caller)
    \/ SshOk(Caller)
    \/ MayFail(task[Caller].tr) /\ SshFail(Caller)
    \/ \E r \in 1..MaxFailures : TimerFire(r)
    \/ \E r \in 1..MaxFailures : RWsOpen(r)
    \/ \E r \in 1..MaxFailures : TimerMayFail(r) /\ RWsFail(r)
    \/ \E r \in 1..MaxFailures : RSshOk(r)
    \/ \E r \in 1..MaxFailures : TimerMayFail(r) /\ RSshFail(r)

\* A sleep that is over wakes its task, and every dial and every SSH
\* handshake under way comes to an end.
SpecReconnect ==
    /\ InitReconnect
    /\ [][NextReconnect]_vars
    /\ \A r \in 1..MaxFailures : WF_vars(TimerFire(r))
    /\ \A r \in 1..MaxFailures : WF_vars(RWsOpen(r) \/ (TimerMayFail(r) /\ RWsFail(r)))
    /\ \A r \in 1..MaxFailures : WF_vars(RSshOk(r) \/ (TimerMayFail(r) /\ RSshFail(r)))
    /\ WF_vars(WsOpen(Caller) \/ (MayFail(task[Caller].tr) /\ WsFail(Caller)))
    /\ WF_vars(SshOk(Caller) \/ (MayFail(task[Caller].tr) /\ SshFail(Caller)))

\* A connect attempt has failed and the backend is not connected.
AttemptFailed ==
    /\ status \in {"disconnected", "reconnecting"}
    /\ \E T \in DOMAIN tstate : tstate[T].ssh # "open"

\* C36: with reconnection enabled and max_retries = 0, once a connect attempt
\* has failed the status becomes connected, whether or not the caller does
\* anything more, provided the timers are served and the attempts made from
\* some point on succeed.
C36_EventuallyConnected == AttemptFailed ~> (status = "connected")

\* C36 witness: the caller's connect() failed and so did the first reconnect;
\* the second reconnect task has connected the backend.
C36_ReconnectedByTimer ==
    /\ status = "connected"
    /\ task[Caller].pc = "idle"
    /\ Len(rt) = 2
    /\ rt[2].pc = "done"
    /\ rt[2].tr = transport
    /\ rt[2].delay = 200
    /\ tstate[transport].ssh = "open"
    /\ retry = 0

\* The history c.messages is well-formed: every assistant message with k
\* tool calls is followed by exactly k tool messages carrying the ids of
\* the calls in order, and every tool message belongs to such a run.
ToolRun(msgs, i) ==
    LET k == Len(msgs[i].tool_calls)
    IN /\ i + k <= Len(msgs)
       /\ \A j \in 1..k :
            /\ msgs[i + j].role = "tool"
            /\ msgs[i + j].tool_call_id = msgs[i].tool_calls[j].id
       /\ i + k < Len(msgs) => msgs[i + k + 1].role # "tool"

WellFormed(msgs) ==
    /\ \A i \in DOMAIN msgs : msgs[i].role = "assistant" => ToolRun(msgs, i)
    /\ \A i \in DOMAIN msgs :
         msgs[i].role = "tool"
           => \E a \in 1..(i - 1) :
                /\ msgs[a].role = "assistant"
                /\ i - a <= Len(msgs[a].tool_calls)
                /\ \A l \in (a + 1)..i : msgs[l].role = "tool"

\* C37: the history only grows, each step leaving what is there as it is; at
\* the prompt it is well-formed; and a blank line leaves the history, the
\* prompt and the completions as they were, so no user message is blank.
C37_HistoryWellFormed ==
    /\ [](vout.pc = "prompt"
            => /\ WellFormed(vout.messages)
               /\ \A i \in DOMAIN vout.messages :
                    vout.messages[i].role = "user"
                      => Strip(vout.messages[i].content) # <<>>)
    /\ [][/\ Len(vout'.messages) >= Len(vout.messages)
          /\ SubSeq(vout'.messages, 1, Len(vout.messages)) = vout.messages
          /\ vout'.blanks # vout.blanks
               => /\ vout'.messages = vout.messages
                  /\ vout'.pc = "prompt"
                  /\ vout'.step = vout.step
                  /\ vout'.turns = vout.turns]_vars

\* C37 witness: after a blank line and a turn that ended at the 15-step
\* bound, the prompt is back with a history of one user message and fifteen
\* assistant messages, each followed by the tool messages of its two calls.
C37_PromptAfterToolTurns ==
    /\ vout.pc = "prompt"
    /\ vout.blanks = 1
    /\ vout.turns = 1
    /\ vout.step = 15
    /\ Len(vout.messages) = 1 + 15 * 3
    /\ vout.messages[Len(vout.messages)].tool_call_id = "y"

============================================================================
